---- MODULE Spec2Model ----
(***************************************************************************)
(* Model of the weekly productivity report (WPR) application:             *)
(*   - the persistence gateway   src/core/database.py  (DatabaseHandler)   *)
(*   - the submission flows      src/main.py           (WPRApp)            *)
(*   - the AI request retry loop src/core/ai_hr_analyzer.py                *)
(*                                                                         *)
(* Python str values are sequences of one-character strings, Python lists *)
(* are sequences, and a value whose Python type the code tests with        *)
(* isinstance is a record tagged with its type.  The hosted data store,   *)
(* the email API and the text-generation API are the environment: each    *)
(* call to them has an outcome drawn nondeterministically.                 *)
(*                                                                         *)
(* The specifications share     the variables:                               *)
(*   SpecGateway  calls of the gateway with arbitrary caller data          *)
(*   Spec         the Streamlit session driving the submission flows       *)
(*   SpecRetry    calls of AIHRAnalyzer._retry_ai_request, step by step    *)
(*   SpecCalc     single calls of the validators and of the analyzer's     *)
(*                metric and sanitizing functions                          *)
(***************************************************************************)
EXTENDS Integers, Sequences, FiniteSets, TLC

VARIABLES
    wpr_data,        \* rows of table 'wpr_data', in insertion order (row id = position)
    gw,              \* what the last gateway call did (observation of one call)
    session,         \* st.session_state of the one browser session
    now_year,        \* datetime.now().year
    email_handler,   \* WPRApp.email_handler is not None
    ai_hr_analyzer,  \* WPRApp.ai_hr_analyzer is not None
    flow,            \* what the last run of a submission flow did
    retry,           \* the frame of one _retry_ai_request call
    calc,            \* the frame of one call of a function: its argument and result
    hr_analysis,     \* rows of table 'hr_analysis', in insertion order
    app,             \* the WPRApp object: the environment it starts in, how far it got
    saves            \* the frames of the save_data calls of two sessions

vars == <<wpr_data, gw, session, now_year, email_handler, ai_hr_analyzer, flow, retry,
          calc, hr_analysis, app, saves>>

(***************************************************************************)
(* Bounds of the model.                                                    *)
(***************************************************************************)
MaxRows == 2          \* rows the table may hold
MaxCalls == 2         \* calls of the AI client explored one after the other
MaxCount == 3         \* largest task count given to the metrics

(***************************************************************************)
(* Strings.                                                                *)
(***************************************************************************)
QUOTE == "\""
BACKSLASH == "\\"
NEWLINE == "\n"
SPACE == " "

\* s[i..j] of a sequence (empty when j < i)
Slice(s, i, j) == [k \in 1..(IF j >= i THEN j - i + 1 ELSE 0) |-> s[i + k - 1]]

\* position of the first occurrence of the two-character substring " (", 0 if none
RECURSIVE FindParen(_, _)
FindParen(s, i) ==
    IF i + 1 > Len(s) THEN 0
    ELSE IF s[i] = SPACE /\ s[i + 1] = "(" THEN i
    ELSE FindParen(s, i + 1)

\* name.split(" (")[0] if " (" in name else name
ActualName(name) ==
    LET p == FindParen(name, 1)
    IN  IF p = 0 THEN name ELSE Slice(name, 1, p - 1)

\* str.strip() for the whitespace of the model's alphabet
IsSpace(c) == c \in {SPACE, NEWLINE}

RECURSIVE LStrip(_)
LStrip(s) == IF s # <<>> /\ IsSpace(Head(s)) THEN LStrip(Tail(s)) ELSE s

RECURSIVE RStrip(_)
RStrip(s) == IF s # <<>> /\ IsSpace(s[Len(s)]) THEN RStrip(Slice(s, 1, Len(s) - 1)) ELSE s

StripOnlyLeft(s) == LStrip(s)
Strip(s) == RStrip(LStrip(s))

\* s.split('\n'): the pieces between newlines (always at least one piece)
RECURSIVE SplitLines(_, _)
SplitLines(s, cur) ==
    IF s = <<>> THEN <<cur>>
    ELSE IF Head(s) = NEWLINE THEN <<cur>> \o SplitLines(Tail(s), <<>>)
    ELSE SplitLines(Tail(s), Append(cur, Head(s)))

\* [t.strip() for t in text.split('\n') if t.strip()]
RECURSIVE StripNonEmpty(_)
StripNonEmpty(lines) ==
    IF lines = <<>> THEN <<>>
    ELSE IF Strip(Head(lines)) = <<>> THEN StripNonEmpty(Tail(lines))
    ELSE <<Strip(Head(lines))>> \o StripNonEmpty(Tail(lines))

TasksFromText(text) == StripNonEmpty(SplitLines(text, <<>>))

(***************************************************************************)
(* json.dumps / json.loads of a list of strings.                           *)
(***************************************************************************)
JsonEscapeNothing(s) == s
RECURSIVE JsonEscape(_)
JsonEscape(s) ==
    IF s = <<>> THEN <<>>
    ELSE (CASE Head(s) = QUOTE     -> <<BACKSLASH, QUOTE>>
            [] Head(s) = BACKSLASH -> <<BACKSLASH, BACKSLASH>>
            [] Head(s) = NEWLINE   -> <<BACKSLASH, "n">>
            [] OTHER               -> <<Head(s)>>) \o JsonEscape(Tail(s))

JsonDumpsStr(s) == <<QUOTE>> \o JsonEscape(s) \o <<QUOTE>>

RECURSIVE JsonDumpsItems(_)
JsonDumpsItems(l) ==
    IF l = <<>> THEN <<>>
    ELSE IF Len(l) = 1 THEN JsonDumpsStr(l[1])
    ELSE JsonDumpsStr(l[1]) \o <<",", SPACE>> \o JsonDumpsItems(Tail(l))

\* json.dumps(list of str)
JsonDumps(l) == <<"[">> \o JsonDumpsItems(l) \o <<"]">>

RECURSIVE SkipWs(_, _)
SkipWs(t, i) == IF i <= Len(t) /\ IsSpace(t[i]) THEN SkipWs(t, i + 1) ELSE i

\* the string literal whose opening quote is at t[i-1]: its value and the
\* position after its closing quote; ok is FALSE when it is not closed
RECURSIVE JsonScanStr(_, _, _)
JsonScanStr(t, i, acc) ==
    IF i > Len(t) THEN [ok |-> FALSE, v |-> <<>>, next |-> i]
    ELSE IF t[i] = QUOTE THEN [ok |-> TRUE, v |-> acc, next |-> i + 1]
    ELSE IF t[i] = NEWLINE THEN [ok |-> FALSE, v |-> <<>>, next |-> i]
    ELSE IF t[i] = BACKSLASH THEN
        IF i + 1 > Len(t) THEN [ok |-> FALSE, v |-> <<>>, next |-> i]
        ELSE IF t[i + 1] \in {QUOTE, BACKSLASH} THEN JsonScanStr(t, i + 2, Append(acc, t[i + 1]))
        ELSE IF t[i + 1] = "n" THEN JsonScanStr(t, i + 2, Append(acc, NEWLINE))
        ELSE [ok |-> FALSE, v |-> <<>>, next |-> i]
    ELSE JsonScanStr(t, i + 1, Append(acc, t[i]))

\* the items of a list after its "[" (first) or after a "," (not first)
RECURSIVE JsonScanItems(_, _, _, _)
JsonScanItems(t, i0, acc, first) ==
    LET i == SkipWs(t, i0)
    IN  IF i > Len(t) THEN [ok |-> FALSE, v |-> <<>>, next |-> i]
        ELSE IF t[i] = "]" /\ first THEN [ok |-> TRUE, v |-> acc, next |-> i + 1]
        ELSE IF t[i] # QUOTE THEN [ok |-> FALSE, v |-> <<>>, next |-> i]
        ELSE LET s == JsonScanStr(t, i + 1, <<>>)
                 j == SkipWs(t, s.next)
             IN  IF ~s.ok \/ j > Len(t) THEN [ok |-> FALSE, v |-> <<>>, next |-> j]
                 ELSE IF t[j] = "]" THEN [ok |-> TRUE, v |-> Append(acc, s.v), next |-> j + 1]
                 ELSE IF t[j] = "," THEN JsonScanItems(t, j + 1, Append(acc, s.v), FALSE)
                 ELSE [ok |-> FALSE, v |-> <<>>, next |-> j]

\* json.loads(text) for a text holding a list of strings; ok is FALSE where
\* json.loads raises JSONDecodeError
JsonLoads(t) ==
    LET i == SkipWs(t, 1)
    IN  IF i > Len(t) \/ t[i] # "[" THEN [ok |-> FALSE, v |-> <<>>]
        ELSE LET r == JsonScanItems(t, i + 1, <<>>, TRUE)
             IN  IF r.ok /\ SkipWs(t, r.next) > Len(t)
                 THEN [ok |-> TRUE, v |-> r.v]
                 ELSE [ok |-> FALSE, v |-> <<>>]

(***************************************************************************)
(* json.dumps / json.loads of any value the report fields hold: strings,   *)
(* integers, floats with one decimal, lists and dicts with string keys.    *)
(* A value is a record of its Python type t and its content v; a float is  *)
(* held in tenths (57.0 is 570), a dict as the sequence of its items.      *)
(***************************************************************************)
JvStr(s) == [t |-> "str", v |-> s]
JvInt(n) == [t |-> "int", v |-> n]
JvFloat(tenths) == [t |-> "float", v |-> tenths]
JvList(items) == [t |-> "list", v |-> items]
JvDict(items) == [t |-> "dict", v |-> items]       \* items: <<[k |-> str, v |-> value]>>
JvNone == [t |-> "none", v |-> 0]

Digits == <<"0", "1", "2", "3", "4", "5", "6", "7", "8", "9">>
IsDigit(c) == \E d \in 1..10 : Digits[d] = c
DigitVal(c) == (CHOOSE d \in 1..10 : Digits[d] = c) - 1

\* str(n) of an integer n >= 0
RECURSIVE IntToStr(_)
IntToStr(n) == IF n < 10 THEN <<Digits[n + 1]>> ELSE IntToStr(n \div 10) \o <<Digits[(n % 10) + 1]>>

\* the list of strings of a task field as a value
RECURSIVE JvOfStrings(_)
JvOfStrings(l) == IF l = <<>> THEN <<>> ELSE <<JvStr(Head(l))>> \o JvOfStrings(Tail(l))

RECURSIVE JsonDumpsValue(_)
RECURSIVE JsonDumpsSeq(_)
RECURSIVE JsonDumpsMembers(_)
JsonDumpsValue(x) ==
    CASE x.t = "str"   -> JsonDumpsStr(x.v)
      [] x.t = "int"   -> IntToStr(x.v)
      [] x.t = "float" -> IntToStr(x.v \div 10) \o <<".">> \o IntToStr(x.v % 10)
      [] x.t = "list"  -> <<"[">> \o JsonDumpsSeq(x.v) \o <<"]">>
      [] x.t = "dict"  -> <<"{">> \o JsonDumpsMembers(x.v) \o <<"}">>
      [] OTHER         -> <<"n", "u", "l", "l">>
JsonDumpsSeq(l) ==
    IF l = <<>> THEN <<>>
    ELSE IF Len(l) = 1 THEN JsonDumpsValue(l[1])
    ELSE JsonDumpsValue(l[1]) \o <<",", SPACE>> \o JsonDumpsSeq(Tail(l))
JsonDumpsMembers(l) ==
    IF l = <<>> THEN <<>>
    ELSE JsonDumpsStr(l[1].k) \o <<":", SPACE>> \o JsonDumpsValue(l[1].v)
         \o (IF Len(l) = 1 THEN <<>> ELSE <<",", SPACE>> \o JsonDumpsMembers(Tail(l)))

\* == of two values (values of different types are different)
RECURSIVE JvEq(_, _)
JvEq(a, b) ==
    /\ a.t = b.t
    /\ CASE a.t \in {"str", "int", "float", "none"} -> a.v = b.v
         [] a.t = "list" -> /\ Len(a.v) = Len(b.v)
                            /\ \A i \in 1..Len(a.v) : JvEq(a.v[i], b.v[i])
         [] a.t = "dict" -> /\ Len(a.v) = Len(b.v)
                            /\ \A i \in 1..Len(a.v) :
                                   a.v[i].k = b.v[i].k /\ JvEq(a.v[i].v, b.v[i].v)
         [] OTHER -> FALSE

JsonFail(i) == [ok |-> FALSE, v |-> JvNone, next |-> i]

\* the digits from t[i] on: their value and the position after them
RECURSIVE JsonScanDigits(_, _, _)
JsonScanDigits(t, i, acc) ==
    IF i <= Len(t) /\ IsDigit(t[i]) THEN JsonScanDigits(t, i + 1, 10 * acc + DigitVal(t[i]))
    ELSE [n |-> acc, next |-> i]

\* a number that starts at the digit t[i]: an int, or a float with one decimal
JsonScanNumber(t, i) ==
    LET w == JsonScanDigits(t, i, 0)
    IN  IF t[i] = "0" /\ w.next > i + 1 THEN JsonFail(i + 1)
        ELSE IF w.next <= Len(t) /\ t[w.next] = "."
        THEN IF w.next + 1 <= Len(t) /\ IsDigit(t[w.next + 1])
                  /\ ~(w.next + 2 <= Len(t) /\ IsDigit(t[w.next + 2]))
             THEN [ok |-> TRUE, v |-> JvFloat(10 * w.n + DigitVal(t[w.next + 1])),
                   next |-> w.next + 2]
             ELSE JsonFail(w.next + 1)
        ELSE [ok |-> TRUE, v |-> JvInt(w.n), next |-> w.next]

RECURSIVE JsonScanValue(_, _)
RECURSIVE JsonScanSeq(_, _, _, _)
RECURSIVE JsonScanMembers(_, _, _, _)
\* the value that starts at or after t[i0]
JsonScanValue(t, i0) ==
    LET i == SkipWs(t, i0)
    IN  IF i > Len(t) THEN JsonFail(i)
        ELSE IF t[i] = QUOTE
        THEN LET s == JsonScanStr(t, i + 1, <<>>)
             IN  IF s.ok THEN [ok |-> TRUE, v |-> JvStr(s.v), next |-> s.next]
                 ELSE JsonFail(s.next)
        ELSE IF t[i] = "[" THEN JsonScanSeq(t, i + 1, <<>>, TRUE)
        ELSE IF t[i] = "{" THEN JsonScanMembers(t, i + 1, <<>>, TRUE)
        ELSE IF IsDigit(t[i]) THEN JsonScanNumber(t, i)
        ELSE JsonFail(i)
\* the items of a list after its "[" (first) or after a ","
JsonScanSeq(t, i0, acc, first) ==
    LET i == SkipWs(t, i0)
    IN  IF i > Len(t) THEN JsonFail(i)
        ELSE IF t[i] = "]" /\ first THEN [ok |-> TRUE, v |-> JvList(acc), next |-> i + 1]
        ELSE LET x == JsonScanValue(t, i)
                 j == SkipWs(t, x.next)
             IN  IF ~x.ok \/ j > Len(t) THEN JsonFail(j)
                 ELSE IF t[j] = "]"
                 THEN [ok |-> TRUE, v |-> JvList(Append(acc, x.v)), next |-> j + 1]
                 ELSE IF t[j] = "," THEN JsonScanSeq(t, j + 1, Append(acc, x.v), FALSE)
                 ELSE JsonFail(j)
\* the members of a dict after its "{" (first) or after a ","
JsonScanMembers(t, i0, acc, first) ==
    LET i == SkipWs(t, i0)
    IN  IF i > Len(t) THEN JsonFail(i)
        ELSE IF t[i] = "}" /\ first THEN [ok |-> TRUE, v |-> JvDict(acc), next |-> i + 1]
        ELSE IF t[i] # QUOTE THEN JsonFail(i)
        ELSE LET k == JsonScanStr(t, i + 1, <<>>)
                 c == SkipWs(t, k.next)
             IN  IF ~k.ok \/ c > Len(t) \/ t[c] # ":" THEN JsonFail(c)
                 ELSE LET x == JsonScanValue(t, c + 1)
                          j == SkipWs(t, x.next)
                          m == Append(acc, [k |-> k.v, v |-> x.v])
                      IN  IF ~x.ok \/ j > Len(t) THEN JsonFail(j)
                          ELSE IF t[j] = "}"
                          THEN [ok |-> TRUE, v |-> JvDict(m), next |-> j + 1]
                          ELSE IF t[j] = "," THEN JsonScanMembers(t, j + 1, m, FALSE)
                          ELSE JsonFail(j)

\* json.loads(text): ok is FALSE where it raises JSONDecodeError
JsonLoadsValue(t) ==
    LET r == JsonScanValue(t, 1)
    IN  IF r.ok /\ SkipWs(t, r.next) > Len(t) THEN [ok |-> TRUE, v |-> r.v]
        ELSE [ok |-> FALSE, v |-> JvNone]

(***************************************************************************)
(* Values the callers pass.                                                *)
(***************************************************************************)
Ana == <<"A", "n", "a">>
AnaFE == <<"A", "n", "a", " ", "(", "F", "E", ")">>    \* the display form "name (team)"
Names == {Ana, AnaFE}
Weeks == {10, 11}
Years == {2024, 2025}

TList(l) == [t |-> "list", l |-> l]
TStr(s) == [t |-> "str", s |-> s]
TAbsent == [t |-> "absent"]
NoCount == -1                                           \* the key is not in the dict
NullCell == <<"NULL">>                                  \* a column that holds no value
FE == <<"F", "E">>                                      \* the team of the dicts
NameKey == <<"n", "a", "m", "e">>
CompletionKey == <<"c", "o", "m", "p", "l", "e", "t", "i", "o", "n">>
Project(name, tenths) ==
    JvDict(<<[k |-> NameKey, v |-> JvStr(name)], [k |-> CompletionKey, v |-> JvFloat(tenths)]>>)

\* the task fields and the caller-supplied count fields of a dict
TaskPayloads == {
    [Completed |-> TList(<< <<"a">>, <<"b">> >>), Pending |-> TList(<< <<"a">> >>),
     Dropped |-> TList(<<>>), NumCompleted |-> NoCount, NumPending |-> NoCount,
     NumDropped |-> NoCount,
     Projects |-> JvList(<<Project(<<"a">>, 570), Project(<<"b", QUOTE>>, 1000)>>),
     Peers |-> JvDict(<<[k |-> <<"b">>, v |-> JvInt(3)]>>)],
    [Completed |-> TStr(<<"a", NEWLINE, NEWLINE, SPACE, "b", SPACE, NEWLINE>>),
     Pending |-> TStr(<<SPACE, NEWLINE>>), Dropped |-> TAbsent,
     NumCompleted |-> 7, NumPending |-> 7, NumDropped |-> 7,
     Projects |-> TAbsent, Peers |-> TAbsent],
    [Completed |-> TList(<< <<"a", QUOTE, "b">> >>), Pending |-> TList(<<>>),
     Dropped |-> TList(<< <<"b">> >>), NumCompleted |-> 0, NumPending |-> 1,
     NumDropped |-> 0, Projects |-> JvList(<<>>), Peers |-> JvDict(<<>>)] }

MkData(name, week, year, p, email) ==
    [Name |-> name, Team |-> FE, Week |-> week, Year |-> year,
     Projects |-> p.Projects, Peers |-> p.Peers,
     Completed |-> p.Completed, Pending |-> p.Pending, Dropped |-> p.Dropped,
     NumCompleted |-> p.NumCompleted, NumPending |-> p.NumPending,
     NumDropped |-> p.NumDropped, user_email |-> email]

ListPayload == CHOOSE p \in TaskPayloads : p.NumCompleted = NoCount
TextPayload == CHOOSE p \in TaskPayloads : p.NumCompleted = 7
QuotePayload == CHOOSE p \in TaskPayloads : p.NumCompleted = 0

\* the dicts the callers of SpecGateway pass: two spellings of one employee,
\* two years of one week, every task payload
Requests == {
    MkData(Ana, 10, 2024, ListPayload, FALSE),
    MkData(AnaFE, 10, 2024, TextPayload, FALSE),
    MkData(Ana, 10, 2025, QuotePayload, FALSE),
    MkData(AnaFE, 10, 2025, ListPayload, FALSE) }

DbOutcomes == {"ok", "error"}      \* execute() returns, or raises

(***************************************************************************)
(* The persistence gateway, src/core/database.py.                          *)
(***************************************************************************)
\* .select("*").eq("Name", ..).eq("Week Number", ..).eq("Year", ..): row ids
MatchingRows(tbl, name, week, year) ==
    {i \in 1..Len(tbl) : tbl[i].Name = name /\ tbl[i].Week = week /\ tbl[i].Year = year}

MinOf(S) == CHOOSE x \in S : \A y \in S : x <= y

\* check_and_handle_duplicates: (has_duplicate, duplicate_id); a query that
\* raises is answered (False, None)
CheckAndHandleDuplicates(tbl, name, week, year, q) ==
    LET m == MatchingRows(tbl, name, week, year)
    IN  IF q = "ok" /\ m # {} THEN [has_duplicate |-> TRUE, id |-> MinOf(m)]
        ELSE [has_duplicate |-> FALSE, id |-> 0]

\* check_existing_submission: the name is stripped, a query that raises is False
CheckExistingSubmission(tbl, name, week, year, q) ==
    q = "ok" /\ MatchingRows(tbl, ActualName(name), week, year) # {}

\* isinstance(tasks, str) -> split, strip, drop empty; data.get(.., []) when absent
TaskList(x) ==
    IF x.t = "str" THEN TasksFromText(x.s)
    ELSE IF x.t = "list" THEN x.l
    ELSE <<>>

\* data['Number of ... Tasks'] = len(tasks): the supplied count is overwritten
StoredCountTrustCaller(tasks, supplied) == IF supplied # NoCount THEN supplied ELSE Len(tasks)
StoredCount(tasks, supplied) == Len(tasks)

\* a field of json_fields: json.dumps(data[field]) if field in data
DumpsField(x) == IF x.t = "absent" THEN x ELSE TStr(JsonDumpsValue(x))

\* what the data store gets for a field of the dict: its text, or nothing
CellOf(x) == IF x.t = "absent" THEN NullCell ELSE x.s

\* the dict after the task processing and the JSON conversion of save_data and
\* update_data (the caller's dict is changed in place)
PrepareRecord(data) ==
    LET c == TaskList(data.Completed)
        p == TaskList(data.Pending)
        d == TaskList(data.Dropped)
    IN  [data EXCEPT !.Completed = TStr(JsonDumps(c)),
                     !.Pending = TStr(JsonDumps(p)),
                     !.Dropped = TStr(JsonDumps(d)),
                     !.Projects = DumpsField(data.Projects),
                     !.Peers = DumpsField(data.Peers),
                     !.NumCompleted = StoredCount(c, data.NumCompleted),
                     !.NumPending = StoredCount(p, data.NumPending),
                     !.NumDropped = StoredCount(d, data.NumDropped)]

\* the columns the data store gets from a prepared dict
RowOf(rec, id) ==
    [id |-> id, Name |-> rec.Name, Team |-> rec.Team, Week |-> rec.Week, Year |-> rec.Year,
     Projects |-> CellOf(rec.Projects), Peers |-> CellOf(rec.Peers),
     Completed |-> rec.Completed.s, Pending |-> rec.Pending.s, Dropped |-> rec.Dropped.s,
     NumCompleted |-> rec.NumCompleted, NumPending |-> rec.NumPending,
     NumDropped |-> rec.NumDropped, user_email |-> rec.user_email]

\* save_data once the uniqueness query has answered "no duplicate": the
\* dict is prepared and inserted into the table as it is at that moment
InsertPreparedIfAbsent(tbl, stripped, q, ins) ==
    IF MatchingRows(tbl, stripped.Name, stripped.Week, stripped.Year) # {}
    THEN [ret |-> FALSE, tbl |-> tbl, data |-> stripped,
          query |-> "found", insert_issued |-> FALSE]
    ELSE [ret |-> ins = "ok",
          tbl |-> IF ins = "ok"
                  THEN Append(tbl, RowOf(PrepareRecord(stripped), Len(tbl) + 1)) ELSE tbl,
          data |-> PrepareRecord(stripped), query |-> IF q = "ok" THEN "none" ELSE "raised",
          insert_issued |-> TRUE]
InsertPrepared(tbl, stripped, q, ins) ==
    [ret |-> ins = "ok",
     tbl |-> IF ins = "ok"
             THEN Append(tbl, RowOf(PrepareRecord(stripped), Len(tbl) + 1)) ELSE tbl,
     data |-> PrepareRecord(stripped), query |-> IF q = "ok" THEN "none" ELSE "raised",
     insert_issued |-> TRUE]

\* save_data(data): q is the outcome of the uniqueness query, ins of the insert.
\* ret: the returned bool; tbl: the table afterwards; data: the caller's dict
\* afterwards; query: how the uniqueness query ended; insert_issued: whether
\* insert(..).execute() was called
SaveData(tbl, data, q, ins) ==
    LET stripped == [data EXCEPT !.Name = ActualName(data.Name)]
        dup == CheckAndHandleDuplicates(tbl, stripped.Name, stripped.Week, stripped.Year, q)
    IN  IF dup.has_duplicate
        THEN [ret |-> FALSE, tbl |-> tbl, data |-> stripped,
              query |-> "found", insert_issued |-> FALSE]
        ELSE InsertPrepared(tbl, stripped, q, ins)

\* update_data(data, record_id): every column of the dict is written to the
\* row with that id (the name is not stripped, no uniqueness query is made),
\* a column the dict does not carry is kept; result.data is empty when no row
\* has the id
UpdateData(tbl, data, record_id, upd) ==
    LET rec == PrepareRecord(data)
        hit == upd = "ok" /\ record_id \in 1..Len(tbl)
    IN  [ret |-> hit,
         tbl |-> IF hit
                 THEN [tbl EXCEPT ![record_id] =
                          [RowOf(rec, record_id) EXCEPT
                              !.user_email = tbl[record_id].user_email \/ rec.user_email,
                              !.Projects = IF rec.Projects.t = "absent"
                                           THEN tbl[record_id].Projects ELSE @,
                              !.Peers = IF rec.Peers.t = "absent"
                                        THEN tbl[record_id].Peers ELSE @]]
                 ELSE tbl,
         data |-> rec]

(***************************************************************************)
(* SpecGateway: calls of the gateway by any caller.                        *)
(***************************************************************************)
Triple(name, week, year) == <<ActualName(name), week, year>>

GwNone == [op |-> "none", triple |-> <<Ana, 0, 0>>, query |-> "skipped",
           insert_issued |-> FALSE, ret |-> FALSE, existed |-> FALSE,
           was_saved |-> FALSE, id |-> 0, saved |-> {}]

\* initialize_session_state: edit_id 0 is None, form_data 0 is {} and otherwise
\* the id of the row loaded into it, success_message FALSE is None
SessionInit == [edit_mode |-> FALSE, edit_id |-> 0, week_number |-> 10, year |-> 2024,
                success_message |-> FALSE, submitted |-> FALSE, form_data |-> 0]

FlowNone == [kind |-> "none", email |-> <<>>, triple |-> <<Ana, 0, 0>>, row_id |-> 0,
             report |-> 0, warned |-> FALSE, save_ret |-> FALSE,
             ai_called |-> FALSE, ai_failed |-> FALSE, ai_analysis |-> "None",
             email_attempted |-> FALSE, email_sent |-> FALSE, email_counts |-> <<>>,
             outcome |-> "none"]

RetryIdle == [op |-> "none", pc |-> "idle", attempt |-> 0, creates |-> 0, requests |-> 0,
              sleeps |-> <<>>, errors |-> <<>>, result |-> "none",
              timeout_supported |-> TRUE, calls |-> 0]

CalcNone == [fn |-> "none", pc |-> "idle"]

\* the environment variables the application reads: TRUE where the variable
\* is set to a non-empty value
EnvAllSet == [SUPABASE_URL |-> TRUE, SUPABASE_KEY |-> TRUE, MAILJET_API_KEY |-> TRUE,
              MAILJET_API_SECRET |-> TRUE, ANTHROPIC_API_KEY |-> TRUE]
Envs == {EnvAllSet,
         [EnvAllSet EXCEPT !.SUPABASE_URL = FALSE],
         [EnvAllSet EXCEPT !.SUPABASE_KEY = FALSE],
         [EnvAllSet EXCEPT !.MAILJET_API_SECRET = FALSE],
         [EnvAllSet EXCEPT !.ANTHROPIC_API_KEY = FALSE],
         [EnvAllSet EXCEPT !.MAILJET_API_KEY = FALSE, !.ANTHROPIC_API_KEY = FALSE]}

\* the application object once WPRApp.__init__ has returned
AppRunning == [pc |-> "running", env |-> EnvAllSet]

\* no save_data call of a session is being followed
NoSaves == <<>>

\* Config.__init__: _get_env_var raises ValueError for SUPABASE_URL or
\* SUPABASE_KEY not set, the except logs and re-raises; the other three are
\* read with os.getenv and may be None
ConfigInit(env) == [raised |-> ~env.SUPABASE_URL \/ ~env.SUPABASE_KEY]

\* WPRApp.__init__, the email handler: created when both credentials are set
EmailHandlerOfAnyKey(key, secret) == key \/ secret
EmailHandlerOf(key, secret) == key /\ secret

\* WPRApp.__init__: an exception of Config() is logged and re-raised, which
\* ends the script; the analyzer is created when ANTHROPIC_API_KEY is set
WPRAppInit(env) ==
    IF ConfigInit(env).raised
    THEN [raised |-> TRUE, email_handler |-> FALSE, ai_hr_analyzer |-> FALSE]
    ELSE [raised |-> FALSE,
          email_handler |-> EmailHandlerOf(env.MAILJET_API_KEY, env.MAILJET_API_SECRET),
          ai_hr_analyzer |-> env.ANTHROPIC_API_KEY]

Init ==
    /\ wpr_data = <<>>
    /\ gw = GwNone
    /\ session = SessionInit
    /\ now_year = 2024
    /\ email_handler = FALSE
    /\ ai_hr_analyzer = FALSE
    /\ flow = FlowNone
    /\ retry = RetryIdle
    /\ calc = CalcNone
    /\ hr_analysis = <<>>
    /\ \E env \in Envs : app = [pc |-> "starting", env |-> env]
    /\ saves = NoSaves

InitGateway ==
    /\ wpr_data = <<>>
    /\ gw = GwNone
    /\ session = SessionInit
    /\ now_year = 2024
    /\ email_handler = TRUE
    /\ ai_hr_analyzer = TRUE
    /\ flow = FlowNone
    /\ retry = RetryIdle
    /\ calc = CalcNone
    /\ hr_analysis = <<>>
    /\ app = AppRunning
    /\ saves = NoSaves

notgw == <<session, now_year, email_handler, ai_hr_analyzer, flow, retry, calc, hr_analysis,
           app, saves>>

GwSave ==
    \E data \in Requests, q \in DbOutcomes, ins \in DbOutcomes :
      \E r \in {SaveData(wpr_data, data, q, ins)} :
        LET tr == Triple(data.Name, data.Week, data.Year)
        IN  /\ Len(wpr_data) < MaxRows
            /\ wpr_data' = r.tbl
            /\ gw' = [op |-> "save", triple |-> tr, query |-> r.query,
                      insert_issued |-> r.insert_issued, ret |-> r.ret,
                      existed |-> MatchingRows(wpr_data, tr[1], tr[2], tr[3]) # {},
                      was_saved |-> tr \in gw.saved, id |-> 0,
                      saved |-> IF r.ret THEN gw.saved \cup {tr} ELSE gw.saved]
            /\ UNCHANGED notgw

GwUpdate ==
    \E data \in Requests, id \in 1..MaxRows, upd \in DbOutcomes :
      \E r \in {UpdateData(wpr_data, data, id, upd)} :
            /\ wpr_data' = r.tbl
            /\ gw' = [op |-> "update", triple |-> Triple(data.Name, data.Week, data.Year),
                      query |-> "skipped", insert_issued |-> FALSE, ret |-> r.ret,
                      existed |-> FALSE, was_saved |-> FALSE, id |-> id, saved |-> gw.saved]
            /\ UNCHANGED notgw

GwExists ==
    \E data \in Requests, q \in DbOutcomes :
        LET tr == Triple(data.Name, data.Week, data.Year)
        IN  /\ gw' = [op |-> "exists", triple |-> tr,
                      query |-> IF q = "ok" THEN "none" ELSE "raised",
                      insert_issued |-> FALSE,
                      ret |-> CheckExistingSubmission(wpr_data, data.Name, data.Week,
                                                      data.Year, q),
                      existed |-> MatchingRows(wpr_data, tr[1], tr[2], tr[3]) # {},
                      was_saved |-> tr \in gw.saved, id |-> 0, saved |-> gw.saved]
            /\ UNCHANGED <<wpr_data, session, now_year, email_handler, ai_hr_analyzer,
                           flow, retry, calc, hr_analysis, app, saves>>

NextGateway == GwSave \/ GwUpdate \/ GwExists

SpecGateway == InitGateway /\ [][NextGateway]_vars

(***************************************************************************)
(* The submission flows, src/main.py.  The widgets (ui/components.py) are  *)
(* the UI framework's side: they return what the user entered.             *)
(***************************************************************************)
SelectedName == AnaFE      \* the name selectbox offers "member (team)" strings
MaxReports == MaxRows - 1  \* rows in the table while one session is explored

\* InputValidator.validate_email: re.match(r'^[\w\.-]+@[\w\.-]+\.\w+$', email);
\* "$" also matches before a newline that ends the string
WordChar(c) == c \in {"a", "b", "c"}
NameChar(c) == WordChar(c) \/ c \in {".", "-"}
ValidateEmail(e) ==
    LET n == IF e # <<>> /\ e[Len(e)] = NEWLINE THEN Len(e) - 1 ELSE Len(e)
    IN  \E i \in 2..n, j \in 2..n :
            /\ i + 1 < j /\ j < n
            /\ e[i] = "@" /\ e[j] = "."
            /\ \A k \in 1..(i - 1) : NameChar(e[k])
            /\ \A k \in (i + 1)..(j - 1) : NameChar(e[k])
            /\ \A k \in (j + 1)..n : WordChar(e[k])

\* InputValidator.validate_tasks
ValidateTasks(tasks) == IF tasks = <<>> THEN <<>> ELSE TasksFromText(tasks)

\* position of the last "," of s at or before i, 0 if none: where
\* line.rsplit(',', 1) splits
RECURSIVE FindLastComma(_, _)
FindLastComma(s, i) ==
    IF i = 0 THEN 0 ELSE IF s[i] = "," THEN i ELSE FindLastComma(s, i - 1)

\* float(text) of a text made of a sign, digits and a point: ok is FALSE where
\* float raises ValueError (no digit, or a character left over); the value is
\* in tenths, exact for the texts of at most one decimal; the sign of a zero
\* is not kept
ParseFloat(text) ==
    LET s == Strip(text)
        signed == s # <<>> /\ s[1] \in {"-", "+"}
        start == IF signed THEN 2 ELSE 1
        ip == JsonScanDigits(s, start, 0)
        hasdot == ip.next <= Len(s) /\ s[ip.next] = "."
        fp == IF hasdot THEN JsonScanDigits(s, ip.next + 1, 0)
              ELSE [n |-> 0, next |-> ip.next]
        nint == ip.next - start
        nfrac == IF hasdot THEN fp.next - (ip.next + 1) ELSE 0
        mag == 10 * ip.n + (IF nfrac > 0 THEN DigitVal(s[ip.next + 1]) ELSE 0)
    IN  [ok |-> fp.next = Len(s) + 1 /\ nint + nfrac > 0,
         tenths |-> IF signed /\ s[1] = "-" THEN 0 - mag ELSE mag]

\* 0 <= completion <= 100
CompletionInRange(tenths) == 0 <= tenths /\ tenths <= 1000

\* the loop of validate_projects over the lines: a line without a comma
\* (unpacking raises ValueError) or with a suffix float rejects is skipped,
\* a line whose number is out of range appends nothing
RECURSIVE ProjectsOfLines(_)
ProjectsOfLines(lines) ==
    IF lines = <<>> THEN <<>>
    ELSE LET line == Head(lines)
             c == FindLastComma(line, Len(line))
             f == ParseFloat(Slice(line, c + 1, Len(line)))
             keep == /\ Strip(line) # <<>>
                     /\ c # 0
                     /\ f.ok
                     /\ CompletionInRange(f.tenths)
         IN  (IF keep THEN <<Project(Strip(Slice(line, 1, c - 1)), f.tenths)>> ELSE <<>>)
                 \o ProjectsOfLines(Tail(lines))

\* InputValidator.validate_projects(projects)
ValidateProjects(projects) ==
    IF projects = <<>> THEN JvList(<<>>)
    ELSE JvList(ProjectsOfLines(SplitLines(projects, <<>>)))

\* rating.split()[0]: the first run of characters that are not whitespace;
\* none is FALSE where the list is empty (IndexError)
RECURSIVE TakeToken(_)
TakeToken(s) ==
    IF s = <<>> \/ IsSpace(Head(s)) THEN <<>> ELSE <<Head(s)>> \o TakeToken(Tail(s))
FirstToken(s) == [some |-> LStrip(s) # <<>>, tok |-> TakeToken(LStrip(s))]

\* int(token) of a token made of a sign and digits: ok is FALSE where int
\* raises ValueError
ParseInt(tok) ==
    LET signed == tok # <<>> /\ tok[1] \in {"-", "+"}
        start == IF signed THEN 2 ELSE 1
        ip == JsonScanDigits(tok, start, 0)
    IN  [ok |-> ip.next = Len(tok) + 1 /\ ip.next > start,
         n |-> IF signed /\ tok[1] = "-" THEN 0 - ip.n ELSE ip.n]

\* 1 <= numeric_rating <= 4
RatingInRangeUpToFive(n) == 1 <= n /\ n <= 5
RatingInRange(n) == 1 <= n /\ n <= 4

\* the loop of validate_peer_ratings over ratings.items(): IndexError and
\* ValueError skip the entry
RECURSIVE RatingsOfItems(_)
RatingsOfItems(items) ==
    IF items = <<>> THEN <<>>
    ELSE LET t == FirstToken(Head(items).v)
             r == ParseInt(t.tok)
             keep == t.some /\ r.ok /\ RatingInRange(r.n)
         IN  (IF keep THEN <<[k |-> Head(items).k, v |-> JvInt(r.n)]>> ELSE <<>>)
                 \o RatingsOfItems(Tail(items))

\* InputValidator.validate_peer_ratings(ratings); ratings is the dict as the
\* sequence of its items
ValidatePeerRatings(ratings) == JvDict(RatingsOfItems(ratings))

GoodEmail == <<"a", "@", "b", ".", "c">>
BadEmail == <<"a", "b", ".", "c">>

\* what the user typed into the task text areas and the email input
FormInputs == {
    [completed |-> <<"a", NEWLINE, "b">>, pending |-> <<"a">>, dropped |-> <<>>,
     email |-> GoodEmail],
    [completed |-> <<SPACE, NEWLINE>>, pending |-> <<>>, dropped |-> <<"b">>,
     email |-> GoodEmail],
    [completed |-> <<>>, pending |-> <<>>, dropped |-> <<"b">>, email |-> GoodEmail],
    [completed |-> <<"a">>, pending |-> <<>>, dropped |-> <<>>, email |-> BadEmail],
    [completed |-> <<"a">>, pending |-> <<>>, dropped |-> <<>>, email |-> <<>>] }

\* what every form of the model carries in the project text area (a valid
\* line and one out of range) and in the peer section (one teammate rated
\* with a radio option)
FormProjects == <<"a", ",", SPACE, "5", "7", NEWLINE, "b", ",", "1", "5", "0">>
FormPeerRatings == <<[k |-> <<"b">>, v |-> <<"3", SPACE, "(", "a", ")">>]>>
\* validate_projects(projects) and validate_peer_ratings(peer_ratings) of them
FormProjectsValidated == ValidateProjects(FormProjects)
FormPeerRatingsValidated == ValidatePeerRatings(FormPeerRatings)

\* _collect_form_data once the submit button is clicked: ok is FALSE where it
\* returns None; Year is datetime.now().year, Week Number the session's
CollectFormDataAnyEmail(form, week_number, year) ==
    [ok |-> /\ ~(form.completed = <<>> /\ form.pending = <<>>)
            /\ FormPeerRatings # <<>>,
     data |-> [Name |-> ActualName(SelectedName), Team |-> FE,
               Week |-> week_number, Year |-> year,
               Projects |-> FormProjectsValidated,
               Peers |-> FormPeerRatingsValidated,
               Completed |-> TList(ValidateTasks(form.completed)),
               Pending |-> TList(ValidateTasks(form.pending)),
               Dropped |-> TList(ValidateTasks(form.dropped)),
               NumCompleted |-> NoCount, NumPending |-> NoCount, NumDropped |-> NoCount,
               user_email |-> TRUE]]
CollectFormData(form, week_number, year) ==
    [ok |-> /\ ~(form.completed = <<>> /\ form.pending = <<>>)
            /\ form.email # <<>>
            /\ ValidateEmail(form.email)
            /\ FormPeerRatings # <<>>,
     data |-> [Name |-> ActualName(SelectedName), Team |-> FE,
               Week |-> week_number, Year |-> year,
               Projects |-> FormProjectsValidated,
               Peers |-> FormPeerRatingsValidated,
               Completed |-> TList(ValidateTasks(form.completed)),
               Pending |-> TList(ValidateTasks(form.pending)),
               Dropped |-> TList(ValidateTasks(form.dropped)),
               NumCompleted |-> NoCount, NumPending |-> NoCount, NumDropped |-> NoCount,
               user_email |-> TRUE]]

\* how the analysis of one generate_hr_analysis call ends: "ok", the text
\* generation fails ("text_error": _generate_analysis_text returns its error
\* string), or anything else in the call fails ("error")
AiOutcomes == {"ok", "text_error", "error"}

\* AIHRAnalyzer.generate_hr_analysis: never raises; {} without a client or on
\* an exception, else a dict whose analysis_content is the text or the error
\* string of _generate_analysis_text
GenerateHrAnalysisRaises(has_client, ai) ==
    IF ~has_client THEN [raised |-> FALSE, result |-> "empty"]
    ELSE IF ai = "ok" THEN [raised |-> FALSE, result |-> "analysis"]
    ELSE IF ai = "text_error" THEN [raised |-> FALSE, result |-> "placeholder"]
    ELSE [raised |-> TRUE, result |-> "empty"]
GenerateHrAnalysis(has_client, ai) ==
    IF ~has_client THEN [raised |-> FALSE, result |-> "empty"]
    ELSE IF ai = "ok" THEN [raised |-> FALSE, result |-> "analysis"]
    ELSE IF ai = "text_error" THEN [raised |-> FALSE, result |-> "placeholder"]
    ELSE [raised |-> FALSE, result |-> "empty"]

\* analysis_result.get('analysis_content')
AnalysisContent(result) ==
    IF result = "analysis" THEN "narrative" ELSE "Error generating analysis"

\* the email API: 2xx, another status, or a transport exception
MailOutcomes == {"ok", "non2xx", "exception"}

\* EmailHandler.send_email: raises on a status other than 200/201 and on an
\* exception of the client
SendEmail(mail) == [raised |-> mail # "ok"]

\* EmailHandler.send_wpr_notification (called by main.py, defined in no file
\* of src/): returns whether the message was sent, a failure of send_email is
\* a False
SendWprNotification(mail) == [raised |-> FALSE, sent |-> ~SendEmail(mail).raised]

\* a value of the dict handed to save_hr_analysis; Falsy is "not value"
HrInt(n) == [t |-> "int", n |-> n]
HrFloat(tenths) == [t |-> "float", tenths |-> tenths]
Falsy(v) == \/ v.t = "absent"
            \/ v.t = "str" /\ v.s = <<>>
            \/ v.t = "int" /\ v.n = 0
            \/ v.t = "float" /\ v.tenths = 0

\* int(x) of a float given in tenths: the fraction is cut off, toward zero
TruncTenths(tenths) == IF tenths >= 0 THEN tenths \div 10 ELSE 0 - ((0 - tenths) \div 10)

\* int(float(str(v))) of a value that is not falsy: ok is FALSE where float
\* raises ValueError; str of an int or of a float reads back as the number
CoerceIntLenient(v) ==
    IF v.t = "int" THEN [ok |-> TRUE, n |-> v.n]
    ELSE IF v.t = "float" THEN [ok |-> TRUE, n |-> TruncTenths(v.tenths)]
    ELSE [ok |-> TRUE, n |-> IF ParseFloat(v.s).ok THEN TruncTenths(ParseFloat(v.s).tenths)
                             ELSE 0]
CoerceInt(v) ==
    IF v.t = "int" THEN [ok |-> TRUE, n |-> v.n]
    ELSE IF v.t = "float" THEN [ok |-> TRUE, n |-> TruncTenths(v.tenths)]
    ELSE [ok |-> ParseFloat(v.s).ok, n |-> TruncTenths(ParseFloat(v.s).tenths)]

\* DatabaseHandler.save_hr_analysis(analysis_data): employee_name, week_number
\* and year are read from the top level of the dict with .get; a missing or
\* falsy one raises ValueError inside the try, which returns False before the
\* insert; so does a week_number or year that int(float(str(..))) rejects;
\* the insert appends one row; any exception is a False
SaveHrAnalysis(tbl, analysis_data, ins) ==
    IF \/ Falsy(analysis_data.employee_name)
       \/ Falsy(analysis_data.week_number)
       \/ Falsy(analysis_data.year)
    THEN [ret |-> FALSE, tbl |-> tbl, insert_issued |-> FALSE]
    ELSE IF ~CoerceInt(analysis_data.week_number).ok \/ ~CoerceInt(analysis_data.year).ok
    THEN [ret |-> FALSE, tbl |-> tbl, insert_issued |-> FALSE]
    ELSE [ret |-> ins = "ok",
          tbl |-> IF ins = "ok"
                  THEN Append(tbl, [employee_name |-> analysis_data.employee_name.s,
                                    week_number |-> CoerceInt(analysis_data.week_number).n,
                                    year |-> CoerceInt(analysis_data.year).n])
                  ELSE tbl,
          insert_issued |-> TRUE]

\* the outcomes the insert of save_hr_analysis can have for a dict: both when
\* the call gets as far as the insert, none to tell apart when it does not
HrInsertOutcomes(analysis_data) ==
    IF SaveHrAnalysis(<<>>, analysis_data, "ok").insert_issued THEN DbOutcomes ELSE {"ok"}

\* AIHRAnalyzer.save_hr_analysis(data, analysis_result): builds the record,
\* logs it and returns True; nothing is sent to the data store
AnalyzerSaveHrAnalysis(tbl, data) ==
    [ret |-> ActualName(data.Name) # <<>>, tbl |-> tbl]

\* the dict generate_hr_analysis returns: its keys are performance_metrics,
\* employee_data, analysis_content and metadata; name, week and year are
\* inside employee_data, not at the top level
AnalysisResult(data) ==
    [employee_name |-> TAbsent, week_number |-> TAbsent, year |-> TAbsent,
     employee_data |-> [name |-> ActualName(data.Name), week_number |-> data.Week,
                        year |-> data.Year]]

\* table hr_analysis after step 3 of a new submission: generate_hr_analysis
\* calls the analyzer's save_hr_analysis unless it failed before
NewFlowRecords(hr, data, has_ai, ai) ==
    IF has_ai /\ ai # "error" THEN AnalyzerSaveHrAnalysis(hr, data).tbl ELSE hr

\* table hr_analysis after _process_edit_submission: process_submission is
\* reached when update_data returned True; a non-empty result of
\* generate_hr_analysis is handed to DatabaseHandler.save_hr_analysis
EditFlowRecords(hr, data, outcome, has_ai, ai1, ins) ==
    IF outcome = "update_error" \/ ~has_ai THEN hr
    ELSE IF GenerateHrAnalysis(TRUE, ai1).result = "empty" THEN hr
    ELSE SaveHrAnalysis(AnalyzerSaveHrAnalysis(hr, data).tbl, AnalysisResult(data), ins).tbl

\* _handle_user_submission, step 3 (the analysis) and step 4 (the email) of a
\* new submission: either may fail without ending the flow
NewFlowAnalysis(has_ai, ai) ==
    IF ~has_ai THEN [called |-> FALSE, failed |-> FALSE, ai_analysis |-> "None"]
    ELSE LET g == GenerateHrAnalysis(TRUE, ai)
         IN  [called |-> TRUE, failed |-> ai # "ok",
              ai_analysis |-> IF g.raised \/ g.result = "empty" THEN "None"
                              ELSE AnalysisContent(g.result)]

NewFlowEmail(has_email, mail) ==
    IF ~has_email THEN [attempted |-> FALSE, sent |-> FALSE]
    ELSE LET n == SendWprNotification(mail)
         IN  [attempted |-> TRUE, sent |-> ~n.raised /\ n.sent]

\* the task counts in the analysis text of generate_hr_analysis:
\* _calculate_metrics reads the 'Number of ...' keys of the dict, 0 for a key
\* the dict does not carry
MetricTaskCounts(data) ==
    <<IF data.NumCompleted = NoCount THEN 0 ELSE data.NumCompleted,
      IF data.NumPending = NoCount THEN 0 ELSE data.NumPending>>

\* the task counts in the text process_submission formats for the email:
\* len(data.get('Completed Tasks', [])) and len(data.get('Pending Tasks', [])),
\* the number of characters when the value is a str
EmailTaskCounts(data) ==
    <<IF data.Completed.t = "str" THEN Len(data.Completed.s) ELSE Len(data.Completed.l),
      IF data.Pending.t = "str" THEN Len(data.Pending.s) ELSE Len(data.Pending.l)>>

\* _handle_user_submission, the branch of a new submission (not edit_mode):
\* the value save_data returns is logged and not tested
HandleNewSubmission(tbl, form_data, q, ins, has_ai, ai, has_email, mail) ==
    LET r == SaveData(tbl, form_data, q, ins)
        a == NewFlowAnalysis(has_ai, ai)
        e == NewFlowEmail(has_email, mail)
    IN  [tbl |-> r.tbl, save_ret |-> r.ret,
         report |-> IF r.ret THEN r.tbl[Len(r.tbl)] ELSE 0, ai_called |-> a.called,
         ai_failed |-> a.failed, ai_analysis |-> a.ai_analysis,
         email_attempted |-> e.attempted, email_sent |-> e.sent,
         email_counts |-> IF e.attempted /\ a.ai_analysis = "narrative"
                          THEN MetricTaskCounts(r.data) ELSE <<>>,
         outcome |-> "success"]

\* process_submission(data, user_email): generate_hr_analysis is called once
\* for the analysis table and once more for the email; only the second call
\* and the formatting are inside the inner try
ProcessSubmissionReturnsSent(has_ai, ai1, ai2, has_email, mail) ==
    LET g1 == GenerateHrAnalysis(TRUE, ai1)
        g2 == GenerateHrAnalysis(TRUE, ai2)
        n == SendWprNotification(mail)
        failed == has_ai /\ (ai1 # "ok" \/ (has_email /\ ai2 # "ok"))
    IN  IF has_ai /\ g1.raised
        THEN [ret |-> FALSE, ai_called |-> TRUE, ai_failed |-> TRUE, ai_analysis |-> "None",
              email_attempted |-> FALSE, email_sent |-> FALSE]
        ELSE IF ~has_email
        THEN [ret |-> TRUE, ai_called |-> has_ai, ai_failed |-> failed,
              ai_analysis |-> "None", email_attempted |-> FALSE, email_sent |-> FALSE]
        ELSE [ret |-> ~n.raised /\ n.sent, ai_called |-> has_ai, ai_failed |-> failed,
              ai_analysis |-> IF has_ai /\ ~g2.raised /\ g2.result # "empty"
                              THEN "formatted" ELSE "None",
              email_attempted |-> TRUE, email_sent |-> ~n.raised /\ n.sent]
ProcessSubmission(has_ai, ai1, ai2, has_email, mail) ==
    LET g1 == GenerateHrAnalysis(TRUE, ai1)
        g2 == GenerateHrAnalysis(TRUE, ai2)
        n == SendWprNotification(mail)
        failed == has_ai /\ (ai1 # "ok" \/ (has_email /\ ai2 # "ok"))
    IN  IF has_ai /\ g1.raised
        THEN [ret |-> FALSE, ai_called |-> TRUE, ai_failed |-> TRUE, ai_analysis |-> "None",
              email_attempted |-> FALSE, email_sent |-> FALSE]
        ELSE IF ~has_email
        THEN [ret |-> TRUE, ai_called |-> has_ai, ai_failed |-> failed,
              ai_analysis |-> "None", email_attempted |-> FALSE, email_sent |-> FALSE]
        ELSE [ret |-> ~n.raised, ai_called |-> has_ai, ai_failed |-> failed,
              ai_analysis |-> IF has_ai /\ ~g2.raised /\ g2.result # "empty"
                              THEN "formatted" ELSE "None",
              email_attempted |-> TRUE, email_sent |-> ~n.raised /\ n.sent]

\* _process_edit_submission(form_data): user_email is popped, the row with
\* edit_id is updated, then process_submission; st.rerun() ends the run, so
\* the statements after it (leaving edit mode) are not executed
ProcessEditSubmission(tbl, form_data, edit_id, upd, has_ai, ai1, ai2, has_email, mail) ==
    LET data == [form_data EXCEPT !.user_email = FALSE]
        u == UpdateData(tbl, data, edit_id, upd)
        ps == ProcessSubmission(has_ai, ai1, ai2, has_email, mail)
    IN  IF ~u.ret
        THEN [tbl |-> u.tbl, save_ret |-> FALSE, report |-> 0,
              ai_called |-> FALSE, ai_failed |-> FALSE,
              ai_analysis |-> "None", email_attempted |-> FALSE, email_sent |-> FALSE,
              email_counts |-> <<>>, outcome |-> "update_error"]
        ELSE [tbl |-> u.tbl, save_ret |-> TRUE, report |-> u.tbl[edit_id],
              ai_called |-> ps.ai_called,
              ai_failed |-> ps.ai_failed, ai_analysis |-> ps.ai_analysis,
              email_attempted |-> ps.email_attempted, email_sent |-> ps.email_sent,
              email_counts |-> IF ps.ai_analysis = "formatted"
                               THEN EmailTaskCounts(u.data) ELSE <<>>,
              outcome |-> IF ps.ret THEN "success" ELSE "process_error"]

(***************************************************************************)
(* Spec: the runs of the script in one browser session.  Each action is    *)
(* one run of _handle_user_submission for one thing the user did.          *)
(***************************************************************************)
\* _display_week_selector: year_options; year_options.index(session.year)
\* raises when the session's year is not among them, which ends the run
YearOptions(cy) == {cy - 1, cy, cy + 1}
SelectorWorks == session.year \in YearOptions(now_year)

\* get_user_reports(selected_name): the ids of the rows listed with buttons
UserReports(tbl) == {i \in 1..Len(tbl) : tbl[i].Name = ActualName(SelectedName)}

\* the check made before the form is displayed (not in edit mode): a warning
\* is shown when the selected user has a report for the selected week and
\* year; the form is displayed either way
ExistingWarning(tbl, week_number, year, chk) ==
    CheckExistingSubmission(tbl, ActualName(SelectedName), week_number, year, chk)

\* the outcomes of a service that a run can tell apart: all of them when the
\* run calls the service, one when it does not (the handler is None)
Observed(called, outcomes) == IF called THEN outcomes ELSE {"ok"}

\* the outcomes of the uniqueness query that are followed differently: a
\* query that raises and a query that finds no row both read as "no row"
QueryOutcomes(tbl, name, week, year) ==
    Observed(MatchingRows(tbl, ActualName(name), week, year) # {}, DbOutcomes)

notui == <<email_handler, ai_hr_analyzer, retry, calc, app, saves>>

\* app = WPRApp(): the script goes on to app.run() unless __init__ raised
Startup ==
    /\ app.pc = "starting"
    /\ \E r \in {WPRAppInit(app.env)} :
          /\ app' = [app EXCEPT !.pc = IF r.raised THEN "stopped" ELSE "running"]
          /\ email_handler' = r.email_handler
          /\ ai_hr_analyzer' = r.ai_hr_analyzer
    /\ UNCHANGED <<wpr_data, gw, session, now_year, flow, retry, calc, hr_analysis, saves>>

\* the success message of the last run is shown and cleared; nothing else
ShowSuccessMessage ==
    /\ app.pc = "running"
    /\ session.success_message
    /\ session' = [session EXCEPT !.success_message = FALSE]
    /\ flow' = FlowNone
    /\ UNCHANGED <<wpr_data, gw, now_year, hr_analysis, app, saves>>
    /\ UNCHANGED notui

\* the user picks a week and a year in the selector; no button is clicked
SelectWeek ==
    \E week \in Weeks, year \in YearOptions(now_year) :
      \E chk \in QueryOutcomes(wpr_data, SelectedName, week, year) :
        /\ app.pc = "running"
        /\ ~session.success_message /\ ~session.edit_mode /\ SelectorWorks
        /\ session' = [session EXCEPT !.week_number = week, !.year = year]
        /\ flow' = [FlowNone EXCEPT !.kind = "view",
                                    !.warned = ExistingWarning(wpr_data, week, year, chk)]
        /\ UNCHANGED <<wpr_data, gw, now_year, hr_analysis, app, saves>>
        /\ UNCHANGED notui

\* the user clicks "Submit WPR"
SubmitNew ==
    \E form \in FormInputs,
       chk \in QueryOutcomes(wpr_data, SelectedName, session.week_number, session.year) :
        \E c \in {CollectFormData(form, session.week_number, now_year)},
           w \in {ExistingWarning(wpr_data, session.week_number, session.year, chk)} :
            /\ app.pc = "running"
            /\ ~session.success_message /\ ~session.edit_mode /\ SelectorWorks
            /\ IF c.ok
               THEN \E q \in QueryOutcomes(wpr_data, c.data.Name, c.data.Week, c.data.Year),
                       ins \in DbOutcomes, ai \in Observed(ai_hr_analyzer, AiOutcomes),
                       mail \in Observed(email_handler, MailOutcomes) :
                    \E h \in {HandleNewSubmission(wpr_data, c.data, q, ins,
                                     ai_hr_analyzer, ai, email_handler, mail)} :
                            /\ Len(h.tbl) <= MaxReports
                            /\ wpr_data' = h.tbl
                            /\ hr_analysis' = NewFlowRecords(hr_analysis, c.data,
                                                             ai_hr_analyzer, ai)
                            /\ session' = [session EXCEPT !.submitted = TRUE,
                                                          !.form_data = 0]
                            /\ flow' = [kind |-> "new", email |-> form.email,
                                        triple |-> <<c.data.Name, c.data.Week, c.data.Year>>,
                                        row_id |-> IF h.save_ret THEN Len(h.tbl) ELSE 0,
                                        report |-> h.report, warned |-> w,
                                        save_ret |-> h.save_ret, ai_called |-> h.ai_called,
                                        ai_failed |-> h.ai_failed,
                                        ai_analysis |-> h.ai_analysis,
                                        email_attempted |-> h.email_attempted,
                                        email_sent |-> h.email_sent,
                                        email_counts |-> h.email_counts,
                                        outcome |-> h.outcome]
               ELSE /\ flow' = [FlowNone EXCEPT !.kind = "rejected", !.warned = w,
                                                !.email = form.email]
                    /\ UNCHANGED <<wpr_data, session, hr_analysis, app, saves>>
            /\ UNCHANGED <<gw, now_year>>
            /\ UNCHANGED notui

\* the user clicks "Edit" on a listed report: _load_submission_for_edit, rerun
ClickEdit ==
    \E id \in UserReports(wpr_data) :
        /\ app.pc = "running"
        /\ ~session.success_message
        /\ session.edit_mode \/ SelectorWorks
        /\ session' = [session EXCEPT !.edit_mode = TRUE, !.edit_id = id,
                                      !.form_data = id,
                                      !.week_number = wpr_data[id].Week]
        /\ flow' = FlowNone
        /\ UNCHANGED <<wpr_data, gw, now_year, hr_analysis, app, saves>>
        /\ UNCHANGED notui

\* the user clicks "Cancel Edit"
CancelEdit ==
    /\ app.pc = "running"
    /\ ~session.success_message /\ session.edit_mode
    /\ session' = [session EXCEPT !.edit_mode = FALSE, !.edit_id = 0, !.form_data = 0]
    /\ flow' = FlowNone
    /\ UNCHANGED <<wpr_data, gw, now_year, hr_analysis, app, saves>>
    /\ UNCHANGED notui

\* the user clicks "Update WPR"
SubmitEdit ==
    \E form \in FormInputs :
        \E c \in {CollectFormData(form, session.week_number, now_year)} :
            /\ app.pc = "running"
            /\ ~session.success_message /\ session.edit_mode
            /\ IF c.ok
               THEN \E upd \in DbOutcomes, ai1 \in Observed(ai_hr_analyzer, AiOutcomes),
                       ai2 \in Observed(ai_hr_analyzer /\ email_handler, AiOutcomes),
                       mail \in Observed(email_handler, MailOutcomes),
                       hins \in HrInsertOutcomes(AnalysisResult(c.data)) :
                    \E h \in {ProcessEditSubmission(wpr_data, c.data, session.edit_id,
                                     upd, ai_hr_analyzer, ai1, ai2, email_handler, mail)} :
                            /\ wpr_data' = h.tbl
                            /\ hr_analysis' = EditFlowRecords(hr_analysis, c.data,
                                                   h.outcome, ai_hr_analyzer, ai1, hins)
                            /\ session' = [session EXCEPT
                                              !.success_message = (h.outcome = "success")]
                            /\ flow' = [kind |-> "edit", email |-> form.email,
                                        triple |-> <<c.data.Name, c.data.Week, c.data.Year>>,
                                        row_id |-> IF h.save_ret THEN session.edit_id ELSE 0,
                                        report |-> h.report, warned |-> FALSE,
                                        save_ret |-> h.save_ret, ai_called |-> h.ai_called,
                                        ai_failed |-> h.ai_failed,
                                        ai_analysis |-> h.ai_analysis,
                                        email_attempted |-> h.email_attempted,
                                        email_sent |-> h.email_sent,
                                        email_counts |-> h.email_counts,
                                        outcome |-> h.outcome]
               ELSE /\ flow' = [FlowNone EXCEPT !.kind = "rejected", !.email = form.email]
                    /\ UNCHANGED <<wpr_data, session, hr_analysis, app, saves>>
            /\ UNCHANGED <<gw, now_year>>
            /\ UNCHANGED notui

\* the year changes between two runs (within the years of the model)
NewYear ==
    /\ app.pc = "running"
    /\ now_year + 1 \in Years
    /\ now_year' = now_year + 1
    /\ UNCHANGED <<wpr_data, gw, session, flow, hr_analysis, app, saves>>
    /\ UNCHANGED notui

Next ==
    \/ Startup
    \/ ShowSuccessMessage
    \/ SelectWeek
    \/ SubmitNew
    \/ ClickEdit
    \/ CancelEdit
    \/ SubmitEdit
    \/ NewYear

Spec == Init /\ [][Next]_vars

(***************************************************************************)
(* SpecRetry: the AI client, src/core/ai_hr_analyzer.py 395-481 and        *)
(* src/main.py 669-707.  One action per step of _retry_ai_request: the     *)
(* call, one attempt, one wait.                                            *)
(***************************************************************************)
max_retries == 3

\* how one messages.create request ends
RequestOutcomes == {"response", "api_error", "timeout"}

\* time.sleep(2 ** attempt)
BackoffDoubled(attempt) == 2 ^ (attempt + 1)
Backoff(attempt) == 2 ^ attempt

\* messages.create calls of one attempt: the first passes timeout=; a client
\* whose create has no such parameter raises TypeError before it sends
\* anything, and the call is repeated without it
CreatesOfAttempt(timeout_supported) == IF timeout_supported THEN 1 ELSE 2

notretry == <<wpr_data, gw, session, now_year, email_handler, ai_hr_analyzer, flow,
              calc, hr_analysis, app, saves>>

InitRetry ==
    /\ wpr_data = <<>>
    /\ gw = GwNone
    /\ session = SessionInit
    /\ now_year = 2024
    /\ email_handler = TRUE
    /\ ai_hr_analyzer = TRUE
    /\ flow = FlowNone
    /\ retry = RetryIdle
    /\ calc = CalcNone
    /\ hr_analysis = <<>>
    /\ app = AppRunning
    /\ saves = NoSaves

\* _retry_ai_request(prompt) is called: attempt = 0
RetryCall ==
    \E ts \in BOOLEAN :
        /\ retry.pc \in {"idle", "done"}
        /\ retry.calls < MaxCalls
        /\ retry' = [RetryIdle EXCEPT !.op = "retry", !.pc = "attempt",
                                      !.timeout_supported = ts,
                                      !.calls = retry.calls + 1]
        /\ UNCHANGED notretry

\* the body of the loop for one attempt: the request, and on an exception
\* either the re-raise (last attempt) or the warning before the wait
RetryAttempt ==
    \E out \in RequestOutcomes :
        /\ retry.pc = "attempt"
        /\ retry.attempt < max_retries
        /\ retry' =
             IF out = "response"
             THEN [retry EXCEPT !.pc = "done", !.result = "response",
                                !.requests = @ + 1,
                                !.creates = @ + CreatesOfAttempt(retry.timeout_supported)]
             ELSE [retry EXCEPT !.pc = IF retry.attempt = max_retries - 1
                                       THEN "done" ELSE "sleep",
                                !.result = IF retry.attempt = max_retries - 1
                                           THEN "raised" ELSE "none",
                                !.errors = Append(@, out),
                                !.requests = @ + 1,
                                !.creates = @ + CreatesOfAttempt(retry.timeout_supported)]
        /\ UNCHANGED notretry

\* time.sleep(2 ** attempt), then the next iteration of the loop
RetrySleep ==
    /\ retry.pc = "sleep"
    /\ retry' = [retry EXCEPT !.pc = "attempt", !.attempt = @ + 1,
                              !.sleeps = Append(@, Backoff(retry.attempt))]
    /\ UNCHANGED notretry

\* WPRApp._get_ai_analysis(submission_text): one request; an exception, an
\* empty response and a response without a <div> all end in the error <div>
AnalysisOutcomes == {"response", "empty", "bad_format", "api_error"}

GetAiAnalysis ==
    \E out \in AnalysisOutcomes :
        /\ retry.pc \in {"idle", "done"}
        /\ retry.calls < MaxCalls
        /\ retry' = [RetryIdle EXCEPT
                        !.op = "get_ai_analysis", !.pc = "done",
                        !.creates = 1, !.requests = 1,
                        !.errors = IF out = "response" THEN <<>> ELSE <<out>>,
                        !.result = IF out = "response" THEN "response"
                                   ELSE "error_string",
                        !.calls = retry.calls + 1]
        /\ UNCHANGED notretry

NextRetry ==
    \/ RetryCall
    \/ RetryAttempt
    \/ RetrySleep
    \/ GetAiAnalysis

SpecRetry == InitRetry /\ [][NextRetry]_vars

(***************************************************************************)
(* The reads of the gateway, src/core/database.py, and SpecStore: reads of *)
(* a table that holds rows written by save_data and rows written by other  *)
(* means, some with a cell that is not JSON.                               *)
(***************************************************************************)
EmptyList == JvList(<<>>)

\* load_data, get_team_reports, get_submission_by_id: a str cell is decoded,
\* JSONDecodeError gives [], a cell without value stays None
DecodeCell(x) ==
    IF x = NullCell THEN [raised |-> FALSE, v |-> JvNone]
    ELSE LET d == JsonLoadsValue(x)
         IN  [raised |-> FALSE, v |-> IF d.ok THEN d.v ELSE EmptyList]

\* get_user_reports: json.loads(x) if isinstance(x, str) else (x or []);
\* JSONDecodeError is not caught here
DecodeCellUnguarded(x) ==
    IF x = NullCell THEN [raised |-> FALSE, v |-> EmptyList]
    ELSE LET d == JsonLoadsValue(x)
         IN  [raised |-> ~d.ok, v |-> IF d.ok THEN d.v ELSE JvNone]

JsonFields == {"Completed", "Pending", "Dropped", "Projects", "Peers"}

\* the decoding of a cell by a read that catches JSONDecodeError (guarded)
\* or by get_user_reports
Decode(x, guarded) == IF guarded THEN DecodeCell(x) ELSE DecodeCellUnguarded(x)

\* a row with its JSON cells decoded
DecodeRow(row, guarded) ==
    [row EXCEPT !.Completed = Decode(@, guarded).v, !.Pending = Decode(@, guarded).v,
                !.Dropped = Decode(@, guarded).v, !.Projects = Decode(@, guarded).v,
                !.Peers = Decode(@, guarded).v]

RowRaises(row, guarded) == \E f \in JsonFields : Decode(row[f], guarded).raised

\* the row ids of S as a sequence, in the order of the ids
RECURSIVE IdsInOrder(_)
IdsInOrder(S) == IF S = {} THEN <<>> ELSE <<MinOf(S)>> \o IdsInOrder(S \ {MinOf(S)})

\* row a comes before row b in sort_values(by=['Year', 'Week Number'],
\* ascending=[False, False])
MoreRecent(a, b) == a.Year > b.Year \/ (a.Year = b.Year /\ a.Week > b.Week)

\* ids with id put after the last element that is not older than tbl[id]
RECURSIVE InsertByRecency(_, _, _)
InsertByRecency(ids, id, tbl) ==
    IF ids = <<>> THEN <<id>>
    ELSE IF MoreRecent(tbl[id], tbl[Head(ids)]) THEN <<id>> \o ids
    ELSE <<Head(ids)>> \o InsertByRecency(Tail(ids), id, tbl)

RECURSIVE SortByRecency(_, _)
SortByRecency(ids, tbl) ==
    IF ids = <<>> THEN <<>>
    ELSE InsertByRecency(SortByRecency(SubSeq(ids, 1, Len(ids) - 1), tbl), ids[Len(ids)], tbl)

\* the rows of the DataFrame (or list) a read returns
RowsOf(ids, tbl, guarded) == [i \in 1..Len(ids) |-> DecodeRow(tbl[ids[i]], guarded)]

\* get_user_reports(user_name): rows of the employee, most recent first, JSON
\* cells decoded; an exception anywhere gives an empty DataFrame
GetUserReports(tbl, user_name, q) ==
    LET ids == SortByRecency(
                   IdsInOrder({i \in 1..Len(tbl) : tbl[i].Name = ActualName(user_name)}), tbl)
    IN  IF q # "ok" \/ \E i \in 1..Len(ids) : RowRaises(tbl[ids[i]], FALSE)
        THEN <<>>
        ELSE RowsOf(ids, tbl, FALSE)

\* load_data(): every row
LoadData(tbl, q) ==
    IF q # "ok" THEN <<>> ELSE RowsOf(IdsInOrder(1..Len(tbl)), tbl, TRUE)

\* get_team_reports(team_name, week_number): week_number 0 is None
GetTeamReports(tbl, team_name, week_number, q) ==
    IF q # "ok" THEN <<>>
    ELSE RowsOf(IdsInOrder({i \in 1..Len(tbl) :
                    /\ tbl[i].Team = team_name
                    /\ week_number # 0 => tbl[i].Week = week_number}), tbl, TRUE)

\* get_submission_by_id(record_id): <<>> is {}, else the one row
GetSubmissionById(tbl, record_id, q) ==
    IF q # "ok" THEN <<>>
    ELSE RowsOf(IdsInOrder({i \in 1..Len(tbl) : tbl[i].id = record_id}), tbl, TRUE)

Bo == <<"B", "o">>
BE == <<"B", "E">>
Truncated == <<"[", QUOTE, "a">>          \* a cell that is not JSON

\* rows the table may hold: written by save_data (the first four), and written
\* by other means with one cell that is not JSON
StoredRows == {
    RowOf(PrepareRecord(MkData(Ana, 10, 2024, ListPayload, FALSE)), 0),
    RowOf(PrepareRecord(MkData(Ana, 10, 2025, TextPayload, FALSE)), 0),
    RowOf(PrepareRecord(MkData(Ana, 11, 2024, QuotePayload, FALSE)), 0),
    [RowOf(PrepareRecord(MkData(Bo, 10, 2024, ListPayload, FALSE)), 0) EXCEPT !.Team = BE],
    [RowOf(PrepareRecord(MkData(Ana, 11, 2025, ListPayload, FALSE)), 0)
        EXCEPT !.Completed = Truncated],
    [RowOf(PrepareRecord(MkData(Bo, 11, 2024, QuotePayload, FALSE)), 0)
        EXCEPT !.Team = BE, !.Peers = <<"{">>] }

StoredTables ==
    UNION {{[i \in 1..n |-> [f[i] EXCEPT !.id = i]] : f \in [1..n -> StoredRows]} :
              n \in 0..MaxRows}

notstore == <<wpr_data, gw, session, now_year, email_handler, ai_hr_analyzer, flow, retry,
              hr_analysis, app, saves>>

InitStore ==
    /\ wpr_data \in StoredTables
    /\ gw = GwNone
    /\ session = SessionInit
    /\ now_year = 2024
    /\ email_handler = TRUE
    /\ ai_hr_analyzer = TRUE
    /\ flow = FlowNone
    /\ retry = RetryIdle
    /\ calc = CalcNone
    /\ hr_analysis = <<>>
    /\ app = AppRunning
    /\ saves = NoSaves

ReadUserReports ==
    \E user_name \in {Ana, AnaFE, Bo}, q \in DbOutcomes :
        /\ calc' = [fn |-> "get_user_reports", pc |-> "done", q |-> q,
                    ids |-> {i \in 1..Len(wpr_data) : wpr_data[i].Name = ActualName(user_name)},
                    out |-> GetUserReports(wpr_data, user_name, q)]
        /\ UNCHANGED notstore

ReadAll ==
    \E q \in DbOutcomes :
        /\ calc' = [fn |-> "load_data", pc |-> "done", q |-> q,
                    ids |-> 1..Len(wpr_data), out |-> LoadData(wpr_data, q)]
        /\ UNCHANGED notstore

ReadTeamReports ==
    \E team_name \in {FE, BE}, week_number \in {0, 10}, q \in DbOutcomes :
        /\ calc' = [fn |-> "get_team_reports", pc |-> "done", q |-> q,
                    ids |-> {i \in 1..Len(wpr_data) :
                                /\ wpr_data[i].Team = team_name
                                /\ week_number # 0 => wpr_data[i].Week = week_number},
                    out |-> GetTeamReports(wpr_data, team_name, week_number, q)]
        /\ UNCHANGED notstore

ReadSubmissionById ==
    \E record_id \in 1..(MaxRows + 1), q \in DbOutcomes :
        /\ calc' = [fn |-> "get_submission_by_id", pc |-> "done", q |-> q,
                    ids |-> {record_id} \cap 1..Len(wpr_data),
                    out |-> GetSubmissionById(wpr_data, record_id, q)]
        /\ UNCHANGED notstore

NextStore ==
    \/ ReadUserReports
    \/ ReadAll
    \/ ReadTeamReports
    \/ ReadSubmissionById

SpecStore == InitStore /\ [][NextStore]_vars

(***************************************************************************)
(* SpecCalc: one call of a function of the validators or of the analyzer.  *)
(* Init draws the argument, the action of the function computes the result.*)
(***************************************************************************)
notcalc == <<wpr_data, gw, session, now_year, email_handler, ai_hr_analyzer, flow, retry,
             hr_analysis, app, saves>>

\* the frame of a call of fn with argument x, before it has run
CalcInput(fn, x) == [fn |-> fn, pc |-> "input", in |-> x, out |-> 0]

\* n/d rounded to the nearest integer, a tie to the even one (Python round)
RoundDiv(n, d) ==
    LET q == n \div d
        r == n % d
    IN  IF 2 * r < d THEN q
        ELSE IF 2 * r > d THEN q + 1
        ELSE IF q % 2 = 0 THEN q ELSE q + 1

\* int(data.get('Number of ... Tasks', 0))
CountOrZero(x) == IF x = NoCount THEN 0 ELSE x

\* AIHRAnalyzer._calculate_metrics, the task counts and the completion rate.
\* The rate is a float rounded with round(x, 1); here it is the integer number
\* of hundredths of a percent, so 66.7 is 6670.
CalculateMetrics(data) ==
    LET completed_count == CountOrZero(data.NumCompleted)
        pending_count == CountOrZero(data.NumPending)
        dropped_count == CountOrZero(data.NumDropped)
        total_tasks == completed_count + pending_count + dropped_count
    IN  [task_completion_rate |-> IF total_tasks > 0
                                  THEN 10 * RoundDiv(1000 * completed_count, total_tasks)
                                  ELSE 0,
         completed_tasks |-> completed_count, pending_tasks |-> pending_count,
         dropped_tasks |-> dropped_count, total_tasks |-> total_tasks]

\* the counts of the dicts given to _calculate_metrics; a form dict has none
MetricsInputs ==
    {[NumCompleted |-> c, NumPending |-> p, NumDropped |-> d] :
        c \in 0..MaxCount, p \in 0..MaxCount, d \in 0..MaxCount}
    \cup {[NumCompleted |-> NoCount, NumPending |-> NoCount, NumDropped |-> NoCount]}

CalcMetrics ==
    /\ calc.fn = "calculate_metrics" /\ calc.pc = "input"
    /\ calc' = [calc EXCEPT !.pc = "done", !.out = CalculateMetrics(calc.in)]
    /\ UNCHANGED notcalc

\* the lines typed into the project text area: valid ones, a number out of
\* range, a suffix that is no number, no comma, two commas, no name, a blank
\* line, a decimal, a negative number, the bounds of the range, no suffix
ProjectLines == {
    <<"a", "b", ",", SPACE, "5", "7">>,
    <<"a", ",", "1", "5", "0">>,
    <<"a", ",", "a", "b">>,
    <<"a">>,
    <<"a", ",", "b", ",", "5">>,
    <<",", "5">>,
    <<SPACE>>,
    <<"a", ",", "5", ".", "5">>,
    <<"a", ",", "-", "1">>,
    <<"a", ",", "1", "0", "0">>,
    <<"a", ",">> }

\* the texts given to validate_projects: nothing, one line, two lines
ProjectInputs ==
    {<<>>} \cup ProjectLines
           \cup {a \o <<NEWLINE>> \o b : a \in ProjectLines, b \in ProjectLines}

CalcProjects ==
    /\ calc.fn = "validate_projects" /\ calc.pc = "input"
    /\ calc' = [calc EXCEPT !.pc = "done", !.out = ValidateProjects(calc.in)]
    /\ UNCHANGED notcalc

\* rating strings: the radio options' shape, a number out of range, no
\* number, the empty string, no blank after the digit, a leading blank, the
\* digit alone, zero, another label, two digits, a sign
RatingTexts == {
    <<"3", SPACE, "(", "a", ")">>,
    <<"5", SPACE, "(", "a", ")">>,
    <<"a", "b">>,
    <<>>,
    <<"3", "(", "a", ")">>,
    <<SPACE, "2">>,
    <<"4">>,
    <<"0">>,
    <<"1", SPACE, "b">>,
    <<"1", "2">>,
    <<"+", "3">> }

\* the dicts given to validate_peer_ratings: no peer, one peer, two peers
PeerInputs ==
    {<<>>} \cup {<<[k |-> <<"a">>, v |-> r]>> : r \in RatingTexts}
           \cup {<<[k |-> <<"a">>, v |-> r], [k |-> <<"b">>, v |-> q]>> :
                     r \in RatingTexts, q \in RatingTexts}

CalcPeerRatings ==
    /\ calc.fn = "validate_peer_ratings" /\ calc.pc = "input"
    /\ calc' = [calc EXCEPT !.pc = "done", !.out = ValidatePeerRatings(calc.in)]
    /\ UNCHANGED notcalc

\* the fragments _sanitize_html_content looks for and what it writes instead
ScriptOpen == <<"<", "s", "c", "r", "i", "p", "t", ">">>
ScriptClose == <<"<", "/", "s", "c", "r", "i", "p", "t", ">">>
JavascriptColon == <<"j", "a", "v", "a", "s", "c", "r", "i", "p", "t", ":">>
OnerrorEq == <<"o", "n", "e", "r", "r", "o", "r", "=">>
OnclickEq == <<"o", "n", "c", "l", "i", "c", "k", "=">>
ScriptOpenEscaped == <<"&", "l", "t", ";", "s", "c", "r", "i", "p", "t", "&", "g", "t", ";">>
ScriptCloseEscaped == <<"&", "l", "t", ";", "/", "s", "c", "r", "i", "p", "t", "&", "g", "t", ";">>
Fragments == {ScriptOpen, ScriptClose, JavascriptColon, OnerrorEq, OnclickEq}

\* pat occurs in s
Contains(s, pat) ==
    \E i \in 1..(Len(s) - Len(pat) + 1) : Slice(s, i, i + Len(pat) - 1) = pat

\* s.replace(pat, new): the occurrences of pat from left to right, without
\* overlap, each replaced once; the result is not scanned again
RECURSIVE ReplaceAll(_, _, _)
ReplaceAll(s, pat, new) ==
    IF Len(s) < Len(pat) THEN s
    ELSE IF Slice(s, 1, Len(pat)) = pat
    THEN new \o ReplaceAll(Slice(s, Len(pat) + 1, Len(s)), pat, new)
    ELSE <<Head(s)>> \o ReplaceAll(Tail(s), pat, new)

\* AIHRAnalyzer._sanitize_html_content: five replacements, one after another
SanitizeHtmlContent(content) ==
    LET c1 == ReplaceAll(content, ScriptOpen, ScriptOpenEscaped)
        c2 == ReplaceAll(c1, ScriptClose, ScriptCloseEscaped)
        c3 == ReplaceAll(c2, JavascriptColon, <<>>)
        c4 == ReplaceAll(c3, OnerrorEq, <<>>)
    IN  ReplaceAll(c4, OnclickEq, <<>>)

\* EmailHandler.format_wpr_email(name, week_number, ai_analysis): the f-string
\* puts ai_analysis as it is between the greeting and the footer; the fixed
\* markup around it is abridged to the tags next to the substitutions
FormatWprEmail(name, week_number, ai_analysis) ==
    <<"<", "h", "2", ">", "W", "e", "e", "k", SPACE>> \o IntToStr(week_number) \o <<"<", "/", "h", "2", ">">>
        \o <<"<", "p", ">", "D", "e", "a", "r", SPACE>> \o name \o <<",", "<", "/", "p", ">">>
        \o ai_analysis
        \o <<"<", "d", "i", "v", SPACE, "c", "l", "a", "s", "s", "=", QUOTE, "f", "o", "o", "t", "e", "r", QUOTE, ">">>

\* summary strings: up to three pieces, each a fragment or a part of one
SummaryPieces == Fragments \cup {
    <<"j", "a", "v", "a">>,
    <<"s", "c", "r", "i", "p", "t", ":">>,
    <<"<", "s", "c", "r">>,
    <<"i", "p", "t", ">">>,
    <<"x">> }
SummaryInputs ==
    {<<>>} \cup SummaryPieces
           \cup {a \o b : a \in SummaryPieces, b \in SummaryPieces}
           \cup {a \o b \o c : a \in SummaryPieces, b \in SummaryPieces, c \in SummaryPieces}

\* '\n'.join(lines), as _load_submission_for_edit puts a stored task list
\* back into the text area
RECURSIVE JoinLines(_)
JoinLines(lines) ==
    IF lines = <<>> THEN <<>>
    ELSE IF Len(lines) = 1 THEN Head(lines)
    ELSE Head(lines) \o <<NEWLINE>> \o JoinLines(Tail(lines))

\* text blocks of a task text area: up to four pieces one after another
TaskPieces == {<<>>, <<"a", SPACE>>, <<SPACE, NEWLINE>>, <<NEWLINE>>, <<"b", SPACE, "c">>}
TaskTexts == {p \o q \o r \o t : p \in TaskPieces, q \in TaskPieces,
                                  r \in TaskPieces, t \in TaskPieces}

\* validate_tasks of a text block, then of its result joined by newlines
CalcTasks ==
    /\ calc.fn = "validate_tasks" /\ calc.pc = "input"
    /\ calc' = [calc EXCEPT !.pc = "once", !.out = ValidateTasks(calc.in)]
    /\ UNCHANGED notcalc

CalcTasksAgain ==
    /\ calc.fn = "validate_tasks" /\ calc.pc = "once"
    /\ calc' = [calc EXCEPT !.pc = "done",
                            !.out = <<calc.out, ValidateTasks(JoinLines(calc.out))>>]
    /\ UNCHANGED notcalc

CalcSanitize ==
    /\ calc.fn = "sanitize_html_content" /\ calc.pc = "input"
    /\ calc' = [calc EXCEPT !.pc = "done", !.out = SanitizeHtmlContent(calc.in)]
    /\ UNCHANGED notcalc

CalcFormatEmail ==
    /\ calc.fn = "format_wpr_email" /\ calc.pc = "input"
    /\ calc' = [calc EXCEPT !.pc = "done", !.out = FormatWprEmail(Ana, 10, calc.in)]
    /\ UNCHANGED notcalc

InitCalc ==
    /\ wpr_data = <<>>
    /\ gw = GwNone
    /\ session = SessionInit
    /\ now_year = 2024
    /\ email_handler = TRUE
    /\ ai_hr_analyzer = TRUE
    /\ flow = FlowNone
    /\ retry = RetryIdle
    /\ hr_analysis = <<>>
    /\ app = AppRunning
    /\ saves = NoSaves
    /\ \/ \E x \in MetricsInputs : calc = CalcInput("calculate_metrics", x)
       \/ \E x \in ProjectInputs : calc = CalcInput("validate_projects", x)
       \/ \E x \in PeerInputs : calc = CalcInput("validate_peer_ratings", x)
       \/ \E x \in SummaryInputs : calc = CalcInput("sanitize_html_content", x)
       \/ \E x \in SummaryInputs : calc = CalcInput("format_wpr_email", x)
       \/ \E x \in TaskTexts : calc = CalcInput("validate_tasks", x)

NextCalc ==
    \/ CalcMetrics
    \/ CalcProjects
    \/ CalcPeerRatings
    \/ CalcSanitize
    \/ CalcFormatEmail
    \/ CalcTasks
    \/ CalcTasksAgain

SpecCalc == InitCalc /\ [][NextCalc]_vars

(***************************************************************************)
(* SpecAnalysis: calls of DatabaseHandler.save_hr_analysis by any caller,  *)
(* src/core/database.py 271-310.  gw is the record of the last call.       *)
(***************************************************************************)
\* the values a caller may put under week_number and under year
WeekValues == {HrInt(10), HrInt(0), HrFloat(107), TAbsent,
               TStr(<<"1", "1">>), TStr(<<SPACE, "1", "2", SPACE>>),
               TStr(<<"1", "0", ".", "7">>), TStr(<<"-", "3">>),
               TStr(<<"a", "b">>), TStr(<<"1", "1", "a">>), TStr(<<SPACE>>)}
YearValues == {HrInt(2024), TStr(<<"2", "0", "2", "5">>), TStr(<<"2", "0", "2", "4", ".", "0">>),
               TStr(<<"x">>), TStr(<<"2", "0", "2", "5", "-">>)}
AnalysisInputs ==
    [employee_name : {TStr(Ana), TAbsent}, week_number : WeekValues, year : YearValues]

notanalysis == <<wpr_data, session, now_year, email_handler, ai_hr_analyzer, flow, retry, calc,
                 app, saves>>

InitAnalysis ==
    /\ wpr_data = <<>>
    /\ gw = [op |-> "none", data |-> 0, ret |-> FALSE, insert_issued |-> FALSE,
             rows_before |-> 0]
    /\ session = SessionInit
    /\ now_year = 2024
    /\ email_handler = TRUE
    /\ ai_hr_analyzer = TRUE
    /\ flow = FlowNone
    /\ retry = RetryIdle
    /\ calc = CalcNone
    /\ hr_analysis = <<>>
    /\ app = AppRunning
    /\ saves = NoSaves

GwSaveHrAnalysis ==
    \E analysis_data \in AnalysisInputs :
      \E ins \in HrInsertOutcomes(analysis_data) :
        \E r \in {SaveHrAnalysis(hr_analysis, analysis_data, ins)} :
            /\ Len(hr_analysis) < MaxRows
            /\ hr_analysis' = r.tbl
            /\ gw' = [op |-> "save_hr_analysis", data |-> analysis_data, ret |-> r.ret,
                      insert_issued |-> r.insert_issued, rows_before |-> Len(hr_analysis)]
            /\ UNCHANGED notanalysis

NextAnalysis == GwSaveHrAnalysis

SpecAnalysis == InitAnalysis /\ [][NextAnalysis]_vars

(***************************************************************************)
(* SpecRace: two sessions each call save_data once on the shared table.    *)
(* A call is two requests to the data store, the uniqueness query and the  *)
(* insert; the requests of the two calls interleave in any order.          *)
(***************************************************************************)
Sessions == {1, 2}
Other(p) == 3 - p

SaveIdle == [pc |-> "idle", data |-> 0, has_duplicate |-> FALSE, query |-> "skipped",
             insert_issued |-> FALSE, ret |-> FALSE, peer |-> "idle"]

notrace == <<gw, session, now_year, email_handler, ai_hr_analyzer, flow, retry, calc,
             hr_analysis, app>>

InitRace ==
    /\ wpr_data = <<>>
    /\ gw = GwNone
    /\ session = SessionInit
    /\ now_year = 2024
    /\ email_handler = TRUE
    /\ ai_hr_analyzer = TRUE
    /\ flow = FlowNone
    /\ retry = RetryIdle
    /\ calc = CalcNone
    /\ hr_analysis = <<>>
    /\ app = AppRunning
    /\ saves = [p \in Sessions |-> SaveIdle]

\* save_data of session p up to the answer of check_and_handle_duplicates
RaceQuery ==
    \E p \in Sessions, data \in Requests, q \in DbOutcomes :
      \E stripped \in {[data EXCEPT !.Name = ActualName(data.Name)]} :
        /\ saves[p].pc = "idle"
        /\ saves' = [saves EXCEPT ![p] =
              [SaveIdle EXCEPT
                 !.pc = "queried", !.data = stripped,
                 !.has_duplicate = CheckAndHandleDuplicates(wpr_data, stripped.Name,
                                      stripped.Week, stripped.Year, q).has_duplicate,
                 !.query = q]]
        /\ UNCHANGED wpr_data
        /\ UNCHANGED notrace

\* the rest of save_data of session p: False for a duplicate, else the insert;
\* peer is how far the other session's call was at that moment
RaceInsert ==
    \E p \in Sessions, ins \in DbOutcomes :
        /\ saves[p].pc = "queried"
        /\ IF saves[p].has_duplicate
           THEN /\ saves' = [saves EXCEPT ![p].pc = "done", ![p].query = "found",
                                          ![p].peer = saves[Other(p)].pc]
                /\ UNCHANGED wpr_data
           ELSE \E r \in {InsertPrepared(wpr_data, saves[p].data, saves[p].query, ins)} :
                /\ saves' = [saves EXCEPT ![p].pc = "done", ![p].query = r.query,
                                          ![p].insert_issued = r.insert_issued,
                                          ![p].ret = r.ret,
                                          ![p].peer = saves[Other(p)].pc]
                /\ wpr_data' = r.tbl
        /\ UNCHANGED notrace

NextRace == RaceQuery \/ RaceInsert

SpecRace == InitRace /\ [][NextRace]_vars

(***************************************************************************)
(* Claims about the gateway, checked under SpecGateway.                    *)
(***************************************************************************)
RowTriple(r) == <<r.Name, r.Week, r.Year>>

\* C1: after any sequence of save and update-by-id calls there is at most one
\* stored Report for each (employee name, week number, year).
\* Refuted: update_data writes the identity columns of the dict onto the row
\* without any uniqueness query, and save_data inserts when its query raised.
C1_AtMostOneReportPerTriple ==
    \A i, j \in 1..Len(wpr_data) :
        RowTriple(wpr_data[i]) = RowTriple(wpr_data[j]) => i = j

\* C2: a save for a triple that already has a stored Report returns false,
\* inserts no row and leaves the table as it was.
\* Refuted: when the uniqueness query raises, check_and_handle_duplicates
\* answers (False, None) and the insert goes ahead.
C2_DuplicateSaveRejected ==
    [][(gw'.op = "save"
        /\ MatchingRows(wpr_data, gw'.triple[1], gw'.triple[2], gw'.triple[3]) # {})
       => (gw'.ret = FALSE /\ wpr_data' = wpr_data)]_vars

\* C4: once save has returned true for a triple, every later exists check for
\* it returns true (bare or suffixed name) and a second save is rejected.
\* Refuted: a query that raises makes exists answer False and lets the second
\* save insert; an update-by-id may move the saved row to another triple.
C4_SavedThenExistsAndRejected ==
    /\ (gw.op = "exists" /\ gw.was_saved) => gw.ret
    /\ (gw.op = "save" /\ gw.was_saved) => ~gw.ret

\* C5: every insert issued by save follows, in the same call, a uniqueness
\* query that completed and found no row; no insert when the query raised.
\* Refuted: the except branch of check_and_handle_duplicates returns
\* (False, None), which save_data reads as "no duplicate".
C5_InsertOnlyAfterCompletedQuery ==
    (gw.op = "save" /\ gw.insert_issued) => gw.query = "none"

\* C10: every row written by save or update has each stored task count equal
\* to the length of the task list stored in the same row, whatever counts the
\* caller supplied.
C10_CountsAreListLengths ==
    \A i \in 1..Len(wpr_data) :
        LET r == wpr_data[i]
            c == JsonLoads(r.Completed)
            p == JsonLoads(r.Pending)
            d == JsonLoads(r.Dropped)
        IN  /\ c.ok /\ p.ok /\ d.ok
            /\ r.NumCompleted = Len(c.v)
            /\ r.NumPending = Len(p.v)
            /\ r.NumDropped = Len(d.v)

\* C10 witness: an update has rewritten a row from a dict whose task fields
\* were text blocks with blank lines and whose supplied counts were all 7,
\* and a save has written a row from a dict with supplied counts (0, 1, 0)
C10_Witness ==
    /\ gw.op = "update" /\ gw.ret
    /\ wpr_data[gw.id].Completed = JsonDumps(<< <<"a">>, <<"b">> >>)
    /\ wpr_data[gw.id].NumCompleted = 2
    /\ wpr_data[gw.id].NumPending = 0
    /\ \E i \in 1..Len(wpr_data) :
          i # gw.id /\ wpr_data[i].NumDropped = 1 /\ wpr_data[i].NumPending = 0

(***************************************************************************)
(* Claims about the submission flows, checked under Spec.  flow is the     *)
(* record of the run that has just ended.                                  *)
(***************************************************************************)
FlowReportStands ==
    /\ flow.row_id \in 1..Len(wpr_data)
    /\ wpr_data[flow.row_id] = flow.report
    /\ RowTriple(wpr_data[flow.row_id]) = flow.triple

\* C3: in the flow of a new submission, when save returns false nothing else
\* of the flow proceeds: no analysis is requested, no email is attempted and
\* no success is shown.
C3_RejectedSaveStopsFlow ==
    (flow.kind = "new" /\ ~flow.save_ret)
        => (~flow.ai_called /\ ~flow.email_attempted /\ flow.outcome # "success")

\* C6: when the analysis fails in a flow (new or edit) whose report has been
\* written, the flow still ends in success and the report written is in the
\* table as it was written.
C6_AnalysisFailureIsSoft ==
    (flow.kind \in {"new", "edit"} /\ flow.save_ret /\ flow.ai_failed)
        => (flow.outcome = "success" /\ FlowReportStands)

C6_Witness ==
    /\ flow.kind = "new" /\ flow.save_ret /\ flow.ai_failed
    /\ flow.ai_analysis = "None" /\ flow.outcome = "success"
    /\ Len(wpr_data) = 1

\* C7: when the confirmation email is not sent (a status other than 2xx or an
\* exception) in a flow whose report has been saved (new) or updated (edit),
\* the flow still ends in success and the report is not rolled back.
C7_EmailFailureIsSoft ==
    (flow.kind \in {"new", "edit"} /\ flow.save_ret
        /\ flow.email_attempted /\ ~flow.email_sent)
        => (flow.outcome = "success" /\ FlowReportStands)

C7_Witness ==
    /\ flow.kind = "edit" /\ flow.save_ret
    /\ flow.email_attempted /\ ~flow.email_sent
    /\ flow.outcome = "success" /\ session.success_message
    /\ wpr_data[flow.row_id] = flow.report

(***************************************************************************)
(* Claims about the AI client, checked under SpecRetry.                    *)
(***************************************************************************)
RetryBounded ==
    /\ retry.requests <= max_retries
    /\ retry.result = "response"
           => (retry.pc = "done" /\ retry.requests = Len(retry.errors) + 1)
    /\ retry.requests \in {Len(retry.sleeps), Len(retry.sleeps) + 1}
    /\ \A n \in 1..Len(retry.sleeps) : retry.sleeps[n] = 2 ^ (n - 1)

\* C8 as stated: at most 3 requests per call, none after a response, the
\* n-th wait is 2^(n-1) seconds, and the waits of a call that used all its
\* attempts are 1s, 2s, 4s.
C8_WaitsOneTwoFour ==
    retry.op = "retry"
        => (RetryBounded /\ (retry.result = "raised" => retry.sleeps = <<1, 2, 4>>))

\* C8: _retry_ai_request sends at most 3 requests per call and none after a
\* response; a wait precedes each retry, the n-th being 2^(n-1) seconds; there
\* are at most two waits (1s, 2s): the third failure is re-raised at once.
C8_RetryPolicy ==
    retry.op = "retry"
        => (/\ RetryBounded
            /\ Len(retry.sleeps) <= max_retries - 1
            /\ retry.result = "raised"
                   => (retry.requests = max_retries /\ retry.sleeps = <<1, 2>>))

C8_Witness ==
    /\ retry.op = "retry" /\ retry.pc = "done" /\ retry.result = "raised"
    /\ retry.requests = 3 /\ retry.sleeps = <<1, 2>>

\* C9: when every attempt of a call of the AI client has failed, the call
\* returns a labelled error string and raises nothing.
C9_ExhaustedReturnsErrorString ==
    (retry.pc = "done" /\ retry.op # "none" /\ retry.result # "response")
        => retry.result = "error_string"

(***************************************************************************)
(* Claims about single function calls, checked under SpecCalc.             *)
(***************************************************************************)
\* C11: the task completion rate computed from non-negative counts is 0 when
\* completed + pending + dropped = 0 and otherwise
\* completed / (completed + pending + dropped) * 100 rounded to 2 decimals
\* (2 completed, 1 pending, 0 dropped gives 66.67, here 6667 hundredths).
C11_RateRoundedToTwoDecimals ==
    (calc.fn = "calculate_metrics" /\ calc.pc = "done" /\ calc.in.NumCompleted # NoCount)
        => LET total == calc.in.NumCompleted + calc.in.NumPending + calc.in.NumDropped
           IN  calc.out.task_completion_rate =
                   IF total = 0 THEN 0 ELSE RoundDiv(10000 * calc.in.NumCompleted, total)

(***************************************************************************)
(* Claims about the reads of the gateway, checked under SpecStore.         *)
(***************************************************************************)
\* the index in the rows read of the row with this id, 0 when it is not there
ReadIndex(rows, id) ==
    IF \E k \in 1..Len(rows) : rows[k].id = id
    THEN CHOOSE k \in 1..Len(rows) : rows[k].id = id
    ELSE 0

\* the cell was decoded as the read operations should: a text that is not JSON
\* gives an empty list, a JSON text its value
DecodedDefensively(cell, value) ==
    cell # NullCell =>
        IF JsonLoadsValue(cell).ok THEN JvEq(value, JsonLoadsValue(cell).v)
        ELSE JvEq(value, EmptyList)

\* C12: a read whose query succeeds returns every row it selects, whatever
\* the cells hold: a cell that is not JSON is read as an empty list, the other
\* cells and the other rows are returned as they are.
C12_MalformedCellIsNotFatal ==
    (calc.fn \in {"get_user_reports", "load_data", "get_team_reports",
                  "get_submission_by_id"} /\ calc.q = "ok")
        => \A id \in calc.ids :
               LET k == ReadIndex(calc.out, id)
               IN  /\ k # 0
                   /\ calc.out[k].Name = wpr_data[id].Name
                   /\ calc.out[k].Week = wpr_data[id].Week
                   /\ calc.out[k].Year = wpr_data[id].Year
                   /\ \A f \in JsonFields : DecodedDefensively(wpr_data[id][f], calc.out[k][f])

\* C17: get_user_reports(name) returns exactly the stored rows whose Name is
\* the given name without its " (team)" suffix, the most recent first: Year
\* descending, then Week Number descending.
C17_UserReportsMostRecentFirst ==
    (calc.fn = "get_user_reports" /\ calc.q = "ok")
        => /\ Len(calc.out) = Cardinality(calc.ids)
           /\ {calc.out[k].id : k \in 1..Len(calc.out)} = calc.ids
           /\ \A k \in 1..Len(calc.out), l \in 1..Len(calc.out) :
                  k < l => ~MoreRecent(calc.out[l], calc.out[k])

(***************************************************************************)
(* The round trip of a report through save_data and the reads, checked     *)
(* under SpecGateway.                                                      *)
(***************************************************************************)
\* the row with this id among the rows read carries the lists and the mapping
\* of the dict given to save_data
ReadsBack(data, rows, id) ==
    LET k == ReadIndex(rows, id)
    IN  /\ k # 0
        /\ JvEq(rows[k].Completed, JvList(JvOfStrings(TaskList(data.Completed))))
        /\ JvEq(rows[k].Pending, JvList(JvOfStrings(TaskList(data.Pending))))
        /\ JvEq(rows[k].Dropped, JvList(JvOfStrings(TaskList(data.Dropped))))
        /\ data.Projects.t # "absent" => JvEq(rows[k].Projects, data.Projects)
        /\ data.Peers.t # "absent" => JvEq(rows[k].Peers, data.Peers)

\* C13: after save_data has stored a report, load_data, get_team_reports,
\* get_submission_by_id and get_user_reports read back its task lists, its
\* projects list and its peer-evaluation mapping equal to the values saved;
\* an empty list is read back as an empty list.
C13_SavedFieldsReadBack ==
    (gw.op = "save" /\ gw.ret) =>
        \A data \in {d \in Requests : Triple(d.Name, d.Week, d.Year) = gw.triple} :
            LET id == Len(wpr_data)
                before == SubSeq(wpr_data, 1, id - 1)
            IN  \A r \in {SaveData(before, data, "ok", "ok")} :
                    (r.ret /\ wpr_data = r.tbl)
                        => /\ ReadsBack(data, LoadData(wpr_data, "ok"), id)
                           /\ ReadsBack(data, GetTeamReports(wpr_data, data.Team, 0, "ok"), id)
                           /\ ReadsBack(data, GetSubmissionById(wpr_data, id, "ok"), id)
                           /\ ReadsBack(data, GetUserReports(wpr_data, data.Name, "ok"), id)

C13_Witness ==
    /\ gw.op = "save" /\ gw.ret /\ Len(wpr_data) > 0
    /\ LET row == GetSubmissionById(wpr_data, Len(wpr_data), "ok")[1]
       IN  /\ JvEq(row.Pending, EmptyList)
           /\ JvEq(row.Completed, JvList(<<JvStr(<<"a", QUOTE, "b">>)>>))
           /\ JvEq(row.Peers, JvDict(<<>>))

\* C14: save, update and save_analysis never raise; a call during which a
\* request to the data store raised returns false.  All three bodies are
\* inside try/except, so nothing is raised; refuted for save through C5: the
\* exception of the uniqueness query is swallowed by
\* check_and_handle_duplicates and save_data returns True when the insert
\* that follows succeeds.
C14_StoreErrorReturnsFalse ==
    (gw.op = "save" /\ gw.query = "raised") => ~gw.ret

\* C16: a successful new submission inserts exactly one row into table
\* hr_analysis, a successful edit exactly one more, and no step changes or
\* removes a row of it.  Refuted: the new-submission branch only reaches the
\* analyzer's save_hr_analysis, which logs the record, and the dict
\* process_submission hands to the gateway has no employee_name key.
C16_OneAnalysisRecordPerSubmission ==
    [][/\ Len(wpr_data') = Len(wpr_data) + 1
            => Len(hr_analysis') = Len(hr_analysis) + 1
       /\ (session'.success_message /\ ~session.success_message)
            => Len(hr_analysis') = Len(hr_analysis) + 1
       /\ \A i \in 1..Len(hr_analysis) :
            i <= Len(hr_analysis') /\ hr_analysis'[i] = hr_analysis[i]]_vars

\* C15: a form submission whose email is empty or fails validate_email is
\* rejected by _collect_form_data: neither save_data nor update_data is
\* called for it.
C15_InvalidEmailNeverPersisted ==
    (flow.kind \in {"new", "edit", "rejected"}
        /\ (flow.email = <<>> \/ ~ValidateEmail(flow.email)))
    => (flow.kind = "rejected" /\ ~flow.save_ret /\ flow.row_id = 0)

C15_Witness ==
    /\ flow.kind = "rejected" /\ session.edit_mode
    /\ flow.email # <<>> /\ ~ValidateEmail(flow.email)

\* C18: validate_projects returns, in input order, one {name, completion}
\* record for each non-blank line that has a name, exactly one comma and,
\* after it, a number in [0,100], and nothing for any other line.  Refuted:
\* the line is split at its last comma only, so a line with two commas and a
\* line with nothing before the comma both give a record.
CommaCount(line) == Cardinality({i \in 1..Len(line) : line[i] = ","})
ClaimedProjectLine(line) ==
    LET c == FindLastComma(line, Len(line))
        f == ParseFloat(Slice(line, c + 1, Len(line)))
    IN  /\ Strip(line) # <<>>
        /\ CommaCount(line) = 1
        /\ Strip(Slice(line, 1, c - 1)) # <<>>
        /\ f.ok /\ 0 <= f.tenths /\ f.tenths <= 1000
C18_OneRecordPerWellFormedLine ==
    (calc.fn = "validate_projects" /\ calc.pc = "done") =>
        LET kept == SelectSeq(SplitLines(calc.in, <<>>), ClaimedProjectLine)
            rec(line) == LET c == FindLastComma(line, Len(line))
                         IN  Project(Strip(Slice(line, 1, c - 1)),
                                     ParseFloat(Slice(line, c + 1, Len(line))).tenths)
        IN  JvEq(calc.out, JvList([i \in 1..Len(kept) |-> rec(kept[i])]))

\* the rating string begins with an integer in [1,4]: the digits it starts
\* with, after blanks and a "+" if any, whatever follows them
LeadingInteger(text) ==
    LET w == LStrip(text)
        start == IF w # <<>> /\ w[1] = "+" THEN 2 ELSE 1
        d == JsonScanDigits(w, start, 0)
    IN  IF d.next > start /\ 1 <= d.n /\ d.n <= 4 THEN d.n ELSE 0

\* the validated dict of a rule: rates[i] is the rating the rule reads from
\* the i-th rating string, 0 when the rule drops the entry
RatedBy(items, rates) ==
    LET all == [i \in 1..Len(items) |-> [k |-> items[i].k, v |-> JvInt(rates[i])]]
    IN  JvDict(SelectSeq(all, LAMBDA e : e.v.v # 0))

\* C19 as stated: validate_peer_ratings keeps an entry exactly when its
\* rating string begins with an integer in [1,4], mapped to that integer.
C19_KeptIfBeginsWithInteger ==
    (calc.fn = "validate_peer_ratings" /\ calc.pc = "done")
        => JvEq(calc.out, RatedBy(calc.in, [i \in 1..Len(calc.in) |-> LeadingInteger(calc.in[i].v)]))

\* the first whitespace-separated word of the rating string is an integer
\* literal (a "+" and leading zeros allowed) with a value in [1,4]
FirstWordInteger(text) ==
    LET w == TakeToken(LStrip(text))
        lits(n) == {sg \o [i \in 1..z |-> "0"] \o <<Digits[n + 1]>> :
                       sg \in {<<>>, <<"+">>}, z \in 0..Len(w)}
    IN  IF \E n \in 1..4 : w \in lits(n) THEN CHOOSE n \in 1..4 : w \in lits(n) ELSE 0

\* C19 (amended): validate_peer_ratings keeps an entry exactly when the first
\* whitespace-separated word of its rating string is an integer literal with a
\* value in [1,4], mapping the peer to that integer; every other entry is
\* dropped and the remaining entries are still returned, in their order.
C19_KeptIfFirstWordIsRating ==
    (calc.fn = "validate_peer_ratings" /\ calc.pc = "done")
        => JvEq(calc.out, RatedBy(calc.in, [i \in 1..Len(calc.in) |-> FirstWordInteger(calc.in[i].v)]))

C19_Witness ==
    /\ calc.fn = "validate_peer_ratings" /\ calc.pc = "done"
    /\ Len(calc.in) = 2
    /\ calc.in[1].v = <<"5", SPACE, "(", "a", ")">>
    /\ calc.in[2].v = <<"3", SPACE, "(", "a", ")">>
    /\ JvEq(calc.out, JvDict(<<[k |-> <<"b">>, v |-> JvInt(3)]>>))

\* C20: the guard's output, and the email body built around a summary,
\* contain none of "<script>", "</script>", "javascript:", "onerror=",
\* "onclick=".  Refuted twice: each replacement is made once and the removal
\* of one fragment can join the text around it into another, and
\* format_wpr_email embeds the summary without calling the guard.
C20_NoFragmentReachesEmail ==
    (calc.fn \in {"sanitize_html_content", "format_wpr_email"} /\ calc.pc = "done")
        => \A f \in Fragments : ~Contains(calc.out, f)

(***************************************************************************)
(* Claims about what the flows of a session write, checked under Spec.     *)
(***************************************************************************)
\* C30: no Report is persisted whose completed and pending task lists are
\* both empty after normalization; a form whose completed and pending inputs
\* hold only blank or whitespace lines is rejected like an empty one.
\* Refuted: _collect_form_data tests the raw texts for emptiness before
\* validate_tasks strips them, so " \n" passes and is stored as [] and [].
C30_NoReportWithoutTasks ==
    \A i \in 1..Len(wpr_data) :
        ~(wpr_data[i].Completed = JsonDumps(<<>>) /\ wpr_data[i].Pending = JsonDumps(<<>>))

\* C29: the record the new-submission flow passes to save carries only
\* Report fields; user_email is never part of the payload written.
\* Refuted: the live branch hands the dict of _collect_form_data, user_email
\* included, to save_data; the handler that pops it is called from nowhere.
C29_NoUserEmailInPayload ==
    (flow.kind = "new" /\ flow.save_ret) => ~flow.report.user_email

\* C28: the triple checked for an existing submission before the form is
\* shown is the triple under which the Report is written: the year chosen in
\* the selector is the Year stored with the Report.
\* Refuted: the check reads session_state.year, the record gets
\* datetime.now().year.
C28_SelectedYearIsStoredYear ==
    (flow.kind = "new" /\ flow.save_ret)
        => flow.triple = <<ActualName(SelectedName), session.week_number, session.year>>

\* C26: after an edit submission has been processed successfully the session
\* is out of edit mode (edit_mode False, edit_id None, form_data empty)
\* before the next submission is handled.
\* Refuted: the three assignments follow st.rerun(), which ends the run.
C26_SuccessfulEditLeavesEditMode ==
    (flow.kind = "edit" /\ flow.outcome = "success")
        => (~session.edit_mode /\ session.edit_id = 0 /\ session.form_data = 0)

\* C27: save and update leave the list fields of the caller's record as
\* structured values, so the task counts the later analysis and email steps
\* derive from them equal the numbers of tasks submitted.
\* Refuted: both replace the lists by their JSON text in the caller's dict,
\* and process_submission takes len() of that text after update_data.
C27_EmailCountsAreTaskCounts ==
    (flow.save_ret /\ flow.email_counts # <<>>)
        => flow.email_counts = <<flow.report.NumCompleted, flow.report.NumPending>>

\* C25: an edit leaves the identity of the target Report unchanged: after
\* the update the record with that id has the same employee name, week
\* number and year as before.
\* Refuted: the edit form's dict carries Year = datetime.now().year, which
\* update_data writes over the Year of the row.
C25_EditKeepsIdentity ==
    [][\A i \in 1..Len(wpr_data) : RowTriple(wpr_data'[i]) = RowTriple(wpr_data[i])]_vars

(***************************************************************************)
(* Claims about validate_tasks, checked under SpecCalc.                    *)
(***************************************************************************)
NotSpace(c) == ~IsSpace(c)
RECURSIVE Flatten(_)
Flatten(lines) == IF lines = <<>> THEN <<>> ELSE Head(lines) \o Flatten(Tail(lines))

\* a list of trimmed, non-empty lines that holds the non-blank characters of
\* text in their order
NormalizedLinesOf(lines, text) ==
    /\ \A i \in 1..Len(lines) :
          /\ lines[i] # <<>>
          /\ NotSpace(lines[i][1]) /\ NotSpace(lines[i][Len(lines[i])])
          /\ \A j \in 1..Len(lines[i]) : lines[i][j] # NEWLINE
    /\ SelectSeq(Flatten(lines), NotSpace) = SelectSeq(text, NotSpace)

\* C22: validate_tasks is idempotent: normalizing a text block, joining the
\* resulting list with newlines and normalizing again yields the same list
\* (trimmed, non-empty lines in their original order).
C22_ValidateTasksIdempotent ==
    (calc.fn = "validate_tasks" /\ calc.pc = "done")
        => /\ calc.out[2] = calc.out[1]
           /\ NormalizedLinesOf(calc.out[1], calc.in)

\* C22 witness: a block with a blank line, padding and an inner blank has
\* been normalized twice into two lines
C22_Witness ==
    /\ calc.fn = "validate_tasks" /\ calc.pc = "done"
    /\ calc.in = <<SPACE, NEWLINE, "a", SPACE, NEWLINE, "b", SPACE, "c">>
    /\ calc.out[2] = << <<"a">>, <<"b", SPACE, "c">> >>

(***************************************************************************)
(* Claims about save_hr_analysis, checked under SpecAnalysis.              *)
(***************************************************************************)
\* a text that is no number: once the blanks around it are removed it is
\* empty, has a character that is neither a digit, a point nor a sign, has a
\* sign after its first character, or has no digit
NotANumber(v) ==
    /\ v.t = "str"
    /\ LET x == Strip(v.s)
       IN  \/ x = <<>>
           \/ \E i \in 1..Len(x) : ~IsDigit(x[i]) /\ x[i] \notin {".", "+", "-"}
           \/ \E i \in 2..Len(x) : x[i] \in {"+", "-"}
           \/ \A i \in 1..Len(x) : ~IsDigit(x[i])

\* the integer an int, a float in tenths or a text of digits stands for
IntegerOf(v, n) ==
    \/ v.t = "int" /\ n = v.n
    \/ v.t = "float" /\ 10 * n <= v.tenths /\ v.tenths < 10 * n + 10
    \/ v.t = "str" /\ Strip(v.s) = IntToStr(n)

\* C21: save_analysis coerces week_number and year to integers before the
\* write; when either value cannot be coerced to an integer it returns false
\* and inserts no AnalysisRecord.
C21_UncoercibleIsRejected ==
    gw.op = "save_hr_analysis" =>
        /\ (NotANumber(gw.data.week_number) \/ NotANumber(gw.data.year))
              => (~gw.ret /\ ~gw.insert_issued /\ Len(hr_analysis) = gw.rows_before)
        /\ gw.ret =>
              /\ Len(hr_analysis) = gw.rows_before + 1
              /\ gw.data.week_number \in {HrInt(10), HrFloat(107), TStr(<<"1", "1">>)}
                    => IntegerOf(gw.data.week_number, hr_analysis[Len(hr_analysis)].week_number)
              /\ gw.data.year \in {HrInt(2024), TStr(<<"2", "0", "2", "5">>)}
                    => IntegerOf(gw.data.year, hr_analysis[Len(hr_analysis)].year)

\* C21 witness: a call with the week "ab" has been rejected after a call
\* with the week 10.7 and the year "2025" stored (10, 2025)
C21_Witness ==
    /\ gw.op = "save_hr_analysis" /\ ~gw.ret /\ ~gw.insert_issued
    /\ gw.data.employee_name = TStr(Ana)
    /\ gw.data.week_number = TStr(<<"a", "b">>) /\ gw.data.year = HrInt(2024)
    /\ Len(hr_analysis) = 1
    /\ hr_analysis[1].week_number = 10 /\ hr_analysis[1].year = 2025

(***************************************************************************)
(* Claims about the start of the application, checked under Spec.          *)
(***************************************************************************)
\* C23: absent data-store credentials stop the application at startup;
\* absent email-API credentials or an absent AI-API key only disable that
\* feature: a submission is still saved and reported successful, with no
\* email attempted when the email handler is absent and no AI analysis
\* attempted when the analyzer is absent.
C23_OnlyStoreCredentialsAreFatal ==
    /\ (~app.env.SUPABASE_URL \/ ~app.env.SUPABASE_KEY)
          => (app.pc # "running" /\ flow = FlowNone /\ wpr_data = <<>>)
    /\ (app.env.SUPABASE_URL /\ app.env.SUPABASE_KEY) => app.pc # "stopped"
    /\ (~app.env.MAILJET_API_KEY \/ ~app.env.MAILJET_API_SECRET)
          => /\ ~email_handler /\ ~flow.email_attempted
             /\ (flow.kind \in {"new", "edit"} /\ flow.save_ret)
                   => (flow.outcome = "success" /\ FlowReportStands)
    /\ ~app.env.ANTHROPIC_API_KEY
          => /\ ~ai_hr_analyzer /\ ~flow.ai_called
             /\ (flow.kind \in {"new", "edit"} /\ flow.save_ret)
                   => (flow.outcome = "success" /\ FlowReportStands)

\* C23 witness: started with neither MAILJET_API_KEY nor ANTHROPIC_API_KEY, a
\* new submission has been saved and reported successful without analysis
\* and without email
C23_Witness ==
    /\ app.pc = "running"
    /\ ~app.env.MAILJET_API_KEY /\ ~app.env.ANTHROPIC_API_KEY
    /\ flow.kind = "new" /\ flow.save_ret /\ flow.outcome = "success"
    /\ ~flow.ai_called /\ ~flow.email_attempted
    /\ Len(wpr_data) = 1

\* C23 witness of the fatal case: the script has ended in WPRApp.__init__
C23_WitnessStopped ==
    app.pc = "stopped" /\ ~app.env.SUPABASE_KEY

(***************************************************************************)
(* Claims about concurrent saves, checked under SpecRace.                  *)
(***************************************************************************)
\* both calls are over, for one (employee, week, year), and both uniqueness
\* queries had been answered before the first of the two resolved
BothQueriedFirst ==
    /\ \A p \in Sessions : saves[p].pc = "done"
    /\ RowTriple(saves[1].data) = RowTriple(saves[2].data)
    /\ \E p \in Sessions : saves[p].peer = "queried"

\* C24: the uniqueness guard is check-then-act without atomicity: when two
\* sessions run save for the same (employee, week, year) and both uniqueness
\* queries complete before either insert, both inserts are issued and two
\* Reports exist for the triple (one for each insert the store accepted).
C24_CheckThenActRace ==
    BothQueriedFirst =>
        /\ \A p \in Sessions : saves[p].insert_issued
        /\ Cardinality({i \in 1..Len(wpr_data) :
                           RowTriple(wpr_data[i]) = RowTriple(saves[1].data)})
             = Cardinality({p \in Sessions : saves[p].ret})
        /\ (\A p \in Sessions : saves[p].ret) =>
              /\ Len(wpr_data) = 2
              /\ RowTriple(wpr_data[1]) = RowTriple(wpr_data[2])

\* C24 witness: both queries were answered "no row", then both inserts were
\* accepted, and the table holds two Reports of one triple
C24_Witness ==
    /\ BothQueriedFirst
    /\ \A p \in Sessions : saves[p].query = "none" /\ saves[p].ret
    /\ Len(wpr_data) = 2
    /\ RowTriple(wpr_data[1]) = RowTriple(wpr_data[2])

====
